---- MODULE Spec2Model ----
(***************************************************************************)
(* A model of rust-g2p: the phoneme model (src/src/phoneme.rs), the CMU    *)
(* dictionary loader and lookup (src/src/dict.rs), the letter-to-sound     *)
(* rules engine (src/src/rules.rs), the text processor (src/src/text.rs)   *)
(* and the converter RustG2P (src/src/lib.rs).                             *)
(*                                                                         *)
(* Strings are sequences of characters.  An ASCII character is the         *)
(* one-character string holding it; a non-ASCII character is named by its  *)
(* code point ("U+00E9"); a byte of a source file that is not valid UTF-8  *)
(* is named by its value ("0xE9").                                         *)
(***************************************************************************)
EXTENDS Integers, Sequences, FiniteSets, TLC

(***************************************************************************)
(* Bounds of the model.                                                    *)
(***************************************************************************)
\* longest word enumerated letter by letter over ScanAlphabet
MaxWordLen == 3
\* most lines of a lexicon source
MaxLines == 2
\* most chunks of TextChunks a text is made of
MaxChunks == 2

(***************************************************************************)
(* The state.                                                              *)
(*   g2p         the converter RustG2P: "none" before RustG2P::new,        *)
(*               "ready" once it returned Ok, "failed" once it returned    *)
(*               Err, "aborted" once it panicked                           *)
(*   dict        a Dictionary the caller holds itself: "none" before       *)
(*               Dictionary::load_cmu_dict, "ready" once it returned Ok,   *)
(*               "failed" once it returned Err, "aborted" once it panicked *)
(*   entries     Dictionary.entries, of the converter's dictionary or of   *)
(*               the caller's                                              *)
(*   engine      "ready" once a RulesEngine has been constructed           *)
(*   op          the call in progress at the caller: its name, its input   *)
(*               and what it returned; "idle" between two calls            *)
(*   pc, word_chars, scan_pos, scan_phonemes                                       *)
(*               one call of apply_rules followed turn by turn of its      *)
(*               while loop: where it is, and its local variables          *)
(*   steps, consumed                                                       *)
(*               the number of turns of that loop so far and the number    *)
(*               of characters each turn advanced by                       *)
(*   memo        the input and the result of one earlier call of           *)
(*               apply_rules, kept for comparison                          *)
(***************************************************************************)
VARIABLES g2p, dict, entries, engine, op, pc, word_chars, scan_pos,
          scan_phonemes, steps, consumed, memo

vars ==
  << g2p, dict, entries, engine, op, pc, word_chars, scan_pos,
     scan_phonemes, steps, consumed, memo >>

(***************************************************************************)
(* Characters.                                                             *)
(***************************************************************************)
Lowers ==
  << "a","b","c","d","e","f","g","h","i","j","k","l","m",
     "n","o","p","q","r","s","t","u","v","w","x","y","z" >>

Uppers ==
  << "A","B","C","D","E","F","G","H","I","J","K","L","M",
     "N","O","P","Q","R","S","T","U","V","W","X","Y","Z" >>

Range(s) == { s[i] : i \in DOMAIN s }

LowerSet == Range(Lowers)
UpperSet == Range(Uppers)
DigitSet == { "0","1","2","3","4","5","6","7","8","9" }

\* e-acute, E-acute, replacement character, no-break space,
\* capital I with dot above, combining dot above
NonAscii == { "U+00E9", "U+00C9", "U+FFFD", "U+00A0", "U+0130", "U+0307" }

\* char::is_ascii
is_ascii(c) == c \notin NonAscii

\* char::is_ascii_alphabetic
is_ascii_alphabetic(c) == c \in LowerSet \cup UpperSet

\* char::is_ascii_digit
is_ascii_digit(c) == c \in DigitSet

\* char::is_ascii_whitespace
is_ascii_whitespace(c) == c \in { " ", "\t" }

\* char::is_whitespace (Unicode White_Space)
is_whitespace(c) == c \in { " ", "\t", "U+00A0" }

\* char::is_alphabetic (Unicode Alphabetic)
is_alphabetic(c) == c \in LowerSet \cup UpperSet \cup { "U+00E9", "U+00C9", "U+0130" }

\* the regex class \w (Unicode word character)
is_word_char(c) ==
  c \in LowerSet \cup UpperSet \cup DigitSet \cup { "_", "U+00E9", "U+00C9", "U+0130", "U+0307" }

\* char::len_utf8
len_utf8(c) ==
  IF c = "U+FFFD" THEN 3 ELSE IF c \in NonAscii THEN 2 ELSE 1

LowerOf == [ c \in UpperSet |-> Lowers[CHOOSE i \in DOMAIN Uppers : Uppers[i] = c] ]
UpperOf == [ c \in LowerSet |-> Uppers[CHOOSE i \in DOMAIN Lowers : Lowers[i] = c] ]

\* char::to_ascii_lowercase
to_ascii_lowercase(c) == IF c \in UpperSet THEN LowerOf[c] ELSE c

\* char::to_lowercase: the lower-case mapping of one character, which may be
\* more than one character long
char_to_lowercase(c) ==
  IF c \in UpperSet THEN << LowerOf[c] >>
  ELSE IF c = "U+00C9" THEN << "U+00E9" >>
  ELSE IF c = "U+0130" THEN << "i", "U+0307" >>
  ELSE << c >>

\* char::to_uppercase
char_to_uppercase(c) ==
  IF c \in LowerSet THEN << UpperOf[c] >>
  ELSE IF c = "U+00E9" THEN << "U+00C9" >>
  ELSE << c >>

RECURSIVE Flatten(_)
Flatten(ss) == IF ss = << >> THEN << >> ELSE Head(ss) \o Flatten(Tail(ss))

\* str::to_lowercase
to_lowercase(s) == Flatten([ i \in DOMAIN s |-> char_to_lowercase(s[i]) ])

\* str::to_uppercase
to_uppercase(s) == Flatten([ i \in DOMAIN s |-> char_to_uppercase(s[i]) ])

\* str::len: the length in bytes
byte_len(s) ==
  Len(s) + Cardinality({ i \in DOMAIN s : len_utf8(s[i]) >= 2 })
         + Cardinality({ i \in DOMAIN s : len_utf8(s[i]) >= 3 })

\* whether each character of s is white space, and whether it is not
Whitespace(s) == [ i \in DOMAIN s |-> is_whitespace(s[i]) ]
NotWhitespace(s) == [ i \in DOMAIN s |-> ~is_whitespace(s[i]) ]

\* str::trim_start_matches: s without its longest prefix of characters that
\* match, matches[i] telling whether the i-th character does
trim_start_matches(s, matches) ==
  LET kept == { i \in DOMAIN s : ~matches[i] }
  IN  IF kept = {} THEN << >>
      ELSE SubSeq(s, CHOOSE i \in kept : \A j \in kept : i <= j, Len(s))

\* str::trim_matches: s without its longest prefix and its longest suffix of
\* characters that match
trim_matches(s, matches) ==
  LET kept == { i \in DOMAIN s : ~matches[i] }
  IN  IF kept = {} THEN << >>
      ELSE SubSeq(s, CHOOSE i \in kept : \A j \in kept : i <= j,
                     CHOOSE i \in kept : \A j \in kept : j <= i)

\* str::trim
trim(s) == trim_matches(s, Whitespace(s))

\* the first run of non-whitespace characters of s, which starts with one,
\* and what follows it
FirstWord(rest) == SubSeq(rest, 1, Len(rest) - Len(trim_start_matches(rest, NotWhitespace(rest))))
AfterFirstWord(rest) == trim_start_matches(rest, NotWhitespace(rest))

\* str::split_whitespace: the maximal runs of non-whitespace characters
RECURSIVE split_whitespace(_)

SplitRest(rest) ==
  IF rest = << >> THEN << >>
  ELSE << FirstWord(rest) >> \o split_whitespace(AfterFirstWord(rest))

split_whitespace(s) == SplitRest(trim_start_matches(s, Whitespace(s)))

\* str::find: the 0-based character offset of the first occurrence of pat
\* in s, or -1 when there is none
IsAt(s, pat, i) == i + Len(pat) <= Len(s) /\ SubSeq(s, i + 1, i + Len(pat)) = pat
find(s, pat) ==
  LET hits == { i \in 0..Len(s) : IsAt(s, pat, i) }
  IN  IF hits = {} THEN -1 ELSE CHOOSE i \in hits : \A j \in hits : i <= j

(***************************************************************************)
(* PhonemeModel (src/src/phoneme.rs).                                      *)
(***************************************************************************)
VowelTable ==
  <<
    << <<"A","A">>, "Low", "Back" >>,
    << <<"A","E">>, "Low", "Front" >>,
    << <<"A","H">>, "Mid", "Central" >>,
    << <<"A","O">>, "Mid", "Back" >>,
    << <<"A","W">>, "Low", "Central" >>,
    << <<"A","Y">>, "Low", "Central" >>,
    << <<"E","H">>, "Mid", "Front" >>,
    << <<"E","R">>, "Mid", "Central" >>,
    << <<"E","Y">>, "Mid", "Front" >>,
    << <<"I","H">>, "High", "Front" >>,
    << <<"I","Y">>, "High", "Front" >>,
    << <<"O","W">>, "Mid", "Back" >>,
    << <<"O","Y">>, "Mid", "Back" >>,
    << <<"U","H">>, "High", "Back" >>,
    << <<"U","W">>, "High", "Back" >>
  >>

ConsonantTable ==
  <<
    << <<"B">>, "Stop", "Bilabial", "Voiced" >>,
    << <<"C","H">>, "Affricate", "Postalveolar", "Voiceless" >>,
    << <<"D">>, "Stop", "Alveolar", "Voiced" >>,
    << <<"D","H">>, "Fricative", "Dental", "Voiced" >>,
    << <<"F">>, "Fricative", "Labiodental", "Voiceless" >>,
    << <<"G">>, "Stop", "Velar", "Voiced" >>,
    << <<"H","H">>, "Fricative", "Glottal", "Voiceless" >>,
    << <<"J","H">>, "Affricate", "Postalveolar", "Voiced" >>,
    << <<"K">>, "Stop", "Velar", "Voiceless" >>,
    << <<"L">>, "Liquid", "Alveolar", "Voiced" >>,
    << <<"M">>, "Nasal", "Bilabial", "Voiced" >>,
    << <<"N">>, "Nasal", "Alveolar", "Voiced" >>,
    << <<"N","G">>, "Nasal", "Velar", "Voiced" >>,
    << <<"P">>, "Stop", "Bilabial", "Voiceless" >>,
    << <<"R">>, "Liquid", "Alveolar", "Voiced" >>,
    << <<"S">>, "Fricative", "Alveolar", "Voiceless" >>,
    << <<"S","H">>, "Fricative", "Postalveolar", "Voiceless" >>,
    << <<"T">>, "Stop", "Alveolar", "Voiceless" >>,
    << <<"T","H">>, "Fricative", "Dental", "Voiceless" >>,
    << <<"V">>, "Fricative", "Labiodental", "Voiced" >>,
    << <<"W">>, "Glide", "Bilabial", "Voiced" >>,
    << <<"Y">>, "Glide", "Palatal", "Voiced" >>,
    << <<"Z">>, "Fricative", "Alveolar", "Voiced" >>,
    << <<"Z","H">>, "Fricative", "Postalveolar", "Voiced" >>
  >>

vowel(height, backness) ==
  [ phoneme_type |-> "Vowel", manner |-> "None", place |-> "None",
    voicing |-> "None", height |-> height, backness |-> backness ]

consonant(manner, place, voicing) ==
  [ phoneme_type |-> "Consonant", manner |-> manner, place |-> place,
    voicing |-> voicing, height |-> "None", backness |-> "None" ]

default_features ==
  [ phoneme_type |-> "Special", manner |-> "None", place |-> "None",
    voicing |-> "None", height |-> "None", backness |-> "None" ]

\* the rows of a table whose first element is the symbol: none or one
RowsOf(table, symbol) ==
  { table[i] : i \in { j \in DOMAIN table : table[j][1] = symbol } }

\* the arm of the match of get_arpabet_features the symbol falls into
FeaturesOf(vowels, consonants) ==
  IF vowels # {}
  THEN vowel((CHOOSE r \in vowels : TRUE)[2], (CHOOSE r \in vowels : TRUE)[3])
  ELSE IF consonants # {}
  THEN consonant((CHOOSE r \in consonants : TRUE)[2], (CHOOSE r \in consonants : TRUE)[3],
                 (CHOOSE r \in consonants : TRUE)[4])
  ELSE default_features

\* the match of get_arpabet_features compares the symbol as written
get_arpabet_features(symbol) ==
  FeaturesOf(RowsOf(VowelTable, symbol), RowsOf(ConsonantTable, symbol))

ends_with(s, c) == s # << >> /\ s[Len(s)] = c
ButLast(s) == SubSeq(s, 1, Len(s) - 1)

\* a parse_stress whose arm for '2' gives the stress level of the arm for '1'
parse_stress_NoSecondary(symbol) ==
  IF ends_with(symbol, "0") THEN << ButLast(symbol), "Unstressed" >>
  ELSE IF ends_with(symbol, "1") THEN << ButLast(symbol), "Primary" >>
  ELSE IF ends_with(symbol, "2") THEN << ButLast(symbol), "Primary" >>
  ELSE << symbol, "Unstressed" >>

parse_stress(symbol) ==
  IF ends_with(symbol, "0") THEN << ButLast(symbol), "Unstressed" >>
  ELSE IF ends_with(symbol, "1") THEN << ButLast(symbol), "Primary" >>
  ELSE IF ends_with(symbol, "2") THEN << ButLast(symbol), "Secondary" >>
  ELSE << symbol, "Unstressed" >>

from_arpabet(symbol) ==
  LET p == parse_stress(symbol)
  IN  [ symbol |-> p[1], stress |-> p[2], features |-> get_arpabet_features(p[1]) ]

word_boundary ==
  [ symbol |-> << " " >>, stress |-> "Unstressed", features |-> default_features ]

is_vowel_phoneme(p) == p.features.phoneme_type = "Vowel"
is_consonant(p) == p.features.phoneme_type = "Consonant"

\* impl Display for Phoneme
fmt(p) ==
  LET stress_mark == IF p.stress = "Primary" THEN "1"
                     ELSE IF p.stress = "Secondary" THEN "2" ELSE "0"
  IN  IF p.symbol = << " " >> THEN << " " >> ELSE p.symbol \o << stress_mark >>

(***************************************************************************)
(* RulesEngine (src/src/rules.rs).                                         *)
(*                                                                         *)
(* The engine's fields are written once, by load_english_rules, from the   *)
(* built-in tables, and no method changes them afterwards: they are the    *)
(* definitions Rules, RuleGroup and IrregularWords, and the state holds    *)
(* only whether an engine has been constructed.                            *)
(***************************************************************************)

\* Option<String>::None of a rule's context
NoContext == << >>

\* one Rule, as the loop at the end of load_builtin_rules builds it: an
\* empty context string of the table becomes None
R(pattern, left, right, outputs, conditions, priority) ==
  [ pattern |-> pattern, left_context |-> left, right_context |-> right,
    phonemes |-> outputs, conditions |-> conditions, priority |-> priority ]

BuiltinRules ==
  <<
    R(<<"k","n">>, <<>>, <<>>, << <<"N">> >>, <<"WordStart">>, 10),
    R(<<"g","n">>, <<>>, <<>>, << <<"N">> >>, <<"WordStart">>, 10),
    R(<<"w","r">>, <<>>, <<>>, << <<"R">> >>, <<"WordStart">>, 10),
    R(<<"p","s">>, <<>>, <<>>, << <<"S">> >>, <<"WordStart">>, 10),
    R(<<"p","n">>, <<>>, <<>>, << <<"N">> >>, <<"WordStart">>, 10),
    R(<<"p","t">>, <<>>, <<>>, << <<"T">> >>, <<"WordStart">>, 10),
    R(<<"m","b">>, <<>>, <<>>, << <<"M">> >>, <<"WordEnd">>, 8),
    R(<<"b","t">>, <<>>, <<>>, << <<"T">> >>, <<"WordEnd">>, 8),
    R(<<"m","n">>, <<>>, <<>>, << <<"M">> >>, <<"WordEnd">>, 8),
    R(<<"t","h">>, <<>>, <<>>, << <<"T","H">> >>, <<>>, 5),
    R(<<"c","h">>, <<>>, <<>>, << <<"C","H">> >>, <<>>, 5),
    R(<<"t","c","h">>, <<>>, <<>>, << <<"C","H">> >>, <<>>, 6),
    R(<<"s","c","h">>, <<>>, <<>>, << <<"S">>, <<"K">> >>, <<>>, 6),
    R(<<"s","h">>, <<>>, <<>>, << <<"S","H">> >>, <<>>, 5),
    R(<<"t","i">>, <<>>, <<"o","n">>, << <<"S","H">> >>, <<>>, 6),
    R(<<"c","i">>, <<>>, <<"a","n">>, << <<"S","H">> >>, <<>>, 6),
    R(<<"s","i">>, <<>>, <<"o","n">>, << <<"Z","H">> >>, <<>>, 6),
    R(<<"p","h">>, <<>>, <<>>, << <<"F">> >>, <<>>, 5),
    R(<<"g","h">>, <<>>, <<>>, << <<"F">> >>, <<"WordEnd">>, 6),
    R(<<"g","h">>, <<>>, <<>>, <<  >>, <<>>, 5),
    R(<<"g","h","t">>, <<>>, <<>>, << <<"T">> >>, <<>>, 6),
    R(<<"n","g">>, <<>>, <<>>, << <<"N","G">> >>, <<>>, 5),
    R(<<"n","k">>, <<>>, <<>>, << <<"N","G">>, <<"K">> >>, <<>>, 5),
    R(<<"q","u">>, <<>>, <<>>, << <<"K">>, <<"W">> >>, <<>>, 5),
    R(<<"x">>, <<>>, <<>>, << <<"K">>, <<"S">> >>, <<>>, 3),
    R(<<"x">>, <<"_">>, <<>>, << <<"Z">> >>, <<"WordStart">>, 4),
    R(<<"c","k">>, <<>>, <<>>, << <<"K">> >>, <<>>, 5),
    R(<<"d","g","e">>, <<>>, <<>>, << <<"J","H">> >>, <<"WordEnd">>, 6),
    R(<<"o","u","g","h">>, <<>>, <<>>, << <<"A","H","1">>, <<"F">> >>, <<>>, 8),
    R(<<"a","u","g","h">>, <<>>, <<>>, << <<"A","O","1">>, <<"F">> >>, <<>>, 8),
    R(<<"e","i","g","h">>, <<>>, <<>>, << <<"E","Y","1">> >>, <<>>, 8),
    R(<<"t","i","o","n">>, <<>>, <<>>, << <<"S","H">>, <<"A","H","0">>, <<"N">> >>, <<>>, 7),
    R(<<"s","i","o","n">>, <<>>, <<>>, << <<"Z","H">>, <<"A","H","0">>, <<"N">> >>, <<>>, 7),
    R(<<"t","u","r","e">>, <<>>, <<>>, << <<"C","H">>, <<"E","R","0">> >>, <<>>, 7),
    R(<<"e","a","u">>, <<>>, <<>>, << <<"O","W","1">> >>, <<>>, 6),
    R(<<"i","e","u">>, <<>>, <<>>, << <<"U","W","1">> >>, <<>>, 6),
    R(<<"o","o","r">>, <<>>, <<>>, << <<"U","H","1">>, <<"R">> >>, <<>>, 6),
    R(<<"e","a","r">>, <<>>, <<>>, << <<"I","H","1">>, <<"R">> >>, <<>>, 6),
    R(<<"e","e","r">>, <<>>, <<>>, << <<"I","H","1">>, <<"R">> >>, <<>>, 6),
    R(<<"a","i","r">>, <<>>, <<>>, << <<"E","H","1">>, <<"R">> >>, <<>>, 6),
    R(<<"a","r","e">>, <<>>, <<>>, << <<"E","H","1">>, <<"R">> >>, <<>>, 6),
    R(<<"o","r","e">>, <<>>, <<>>, << <<"A","O","1">>, <<"R">> >>, <<>>, 6),
    R(<<"o","u","r">>, <<>>, <<>>, << <<"A","W","1">>, <<"R">> >>, <<>>, 6),
    R(<<"a","i">>, <<>>, <<>>, << <<"E","Y","1">> >>, <<>>, 5),
    R(<<"a","y">>, <<>>, <<>>, << <<"E","Y","1">> >>, <<>>, 5),
    R(<<"a","u">>, <<>>, <<>>, << <<"A","O","1">> >>, <<>>, 5),
    R(<<"a","w">>, <<>>, <<>>, << <<"A","O","1">> >>, <<>>, 5),
    R(<<"e","a">>, <<>>, <<>>, << <<"I","Y","1">> >>, <<>>, 5),
    R(<<"e","e">>, <<>>, <<>>, << <<"I","Y","1">> >>, <<>>, 5),
    R(<<"e","i">>, <<>>, <<>>, << <<"E","Y","1">> >>, <<>>, 5),
    R(<<"e","u">>, <<>>, <<>>, << <<"Y">>, <<"U","W","1">> >>, <<>>, 5),
    R(<<"e","y">>, <<>>, <<>>, << <<"E","Y","1">> >>, <<>>, 5),
    R(<<"i","e">>, <<>>, <<>>, << <<"I","Y","1">> >>, <<>>, 5),
    R(<<"o","a">>, <<>>, <<>>, << <<"O","W","1">> >>, <<>>, 5),
    R(<<"o","e">>, <<>>, <<>>, << <<"O","W","1">> >>, <<>>, 5),
    R(<<"o","i">>, <<>>, <<>>, << <<"O","Y","1">> >>, <<>>, 5),
    R(<<"o","o">>, <<>>, <<>>, << <<"U","W","1">> >>, <<>>, 5),
    R(<<"o","u">>, <<>>, <<>>, << <<"A","W","1">> >>, <<>>, 5),
    R(<<"o","w">>, <<>>, <<>>, << <<"A","W","1">> >>, <<>>, 5),
    R(<<"o","y">>, <<>>, <<>>, << <<"O","Y","1">> >>, <<>>, 5),
    R(<<"u","e">>, <<>>, <<>>, << <<"U","W","1">> >>, <<>>, 5),
    R(<<"u","i">>, <<>>, <<>>, << <<"U","W","1">> >>, <<>>, 5),
    R(<<"a","l">>, <<>>, <<>>, << <<"A","O","1">>, <<"L">> >>, <<>>, 4),
    R(<<"a","r">>, <<>>, <<>>, << <<"A","A","1">>, <<"R">> >>, <<>>, 4),
    R(<<"e","r">>, <<>>, <<>>, << <<"E","R","1">> >>, <<>>, 4),
    R(<<"i","r">>, <<>>, <<>>, << <<"E","R","1">> >>, <<>>, 4),
    R(<<"o","r">>, <<>>, <<>>, << <<"A","O","1">>, <<"R">> >>, <<>>, 4),
    R(<<"u","r">>, <<>>, <<>>, << <<"E","R","1">> >>, <<>>, 4),
    R(<<"c">>, <<>>, <<"e">>, << <<"S">> >>, <<>>, 4),
    R(<<"c">>, <<>>, <<"i">>, << <<"S">> >>, <<>>, 4),
    R(<<"c">>, <<>>, <<"y">>, << <<"S">> >>, <<>>, 4),
    R(<<"g">>, <<>>, <<"e">>, << <<"J","H">> >>, <<>>, 4),
    R(<<"g">>, <<>>, <<"i">>, << <<"J","H">> >>, <<>>, 4),
    R(<<"g">>, <<>>, <<"y">>, << <<"J","H">> >>, <<>>, 4),
    R(<<"y">>, <<>>, <<>>, << <<"A","Y","1">> >>, <<"WordEnd">>, 4),
    R(<<"y">>, <<>>, <<>>, << <<"I","H","0">> >>, <<>>, 3),
    R(<<"e">>, <<>>, <<"_">>, <<  >>, <<"WordEnd">>, 4),
    R(<<"a">>, <<>>, <<>>, << <<"A","E","0">> >>, <<>>, 2),
    R(<<"e">>, <<>>, <<>>, << <<"E","H","0">> >>, <<>>, 2),
    R(<<"i">>, <<>>, <<>>, << <<"I","H","0">> >>, <<>>, 2),
    R(<<"o">>, <<>>, <<>>, << <<"A","A","0">> >>, <<>>, 2),
    R(<<"u">>, <<>>, <<>>, << <<"A","H","0">> >>, <<>>, 2),
    R(<<"b">>, <<>>, <<>>, << <<"B">> >>, <<>>, 2),
    R(<<"c">>, <<>>, <<>>, << <<"K">> >>, <<>>, 2),
    R(<<"d">>, <<>>, <<>>, << <<"D">> >>, <<>>, 2),
    R(<<"f">>, <<>>, <<>>, << <<"F">> >>, <<>>, 2),
    R(<<"g">>, <<>>, <<>>, << <<"G">> >>, <<>>, 2),
    R(<<"h">>, <<>>, <<>>, << <<"H","H">> >>, <<>>, 2),
    R(<<"j">>, <<>>, <<>>, << <<"J","H">> >>, <<>>, 2),
    R(<<"k">>, <<>>, <<>>, << <<"K">> >>, <<>>, 2),
    R(<<"l">>, <<>>, <<>>, << <<"L">> >>, <<>>, 2),
    R(<<"m">>, <<>>, <<>>, << <<"M">> >>, <<>>, 2),
    R(<<"n">>, <<>>, <<>>, << <<"N">> >>, <<>>, 2),
    R(<<"p">>, <<>>, <<>>, << <<"P">> >>, <<>>, 2),
    R(<<"r">>, <<>>, <<>>, << <<"R">> >>, <<>>, 2),
    R(<<"s">>, <<>>, <<>>, << <<"S">> >>, <<>>, 2),
    R(<<"t">>, <<>>, <<>>, << <<"T">> >>, <<>>, 2),
    R(<<"v">>, <<>>, <<>>, << <<"V">> >>, <<>>, 2),
    R(<<"w">>, <<>>, <<>>, << <<"W">> >>, <<>>, 2),
    R(<<"z">>, <<>>, <<>>, << <<"Z">> >>, <<>>, 2)
  >>
IrregularTable ==
  <<
    << <<"c","o","l","o","n","e","l">>, << <<"K">>, <<"E","R","1">>, <<"N">>, <<"A","H","0">>, <<"L">> >> >>,
    << <<"y","a","c","h","t">>, << <<"Y">>, <<"A","A","1">>, <<"T">> >> >>,
    << <<"i","s","l","a","n","d">>, << <<"A","Y","1">>, <<"L">>, <<"A","H","0">>, <<"N">>, <<"D">> >> >>,
    << <<"a","i","s","l","e">>, << <<"A","Y","1">>, <<"L">> >> >>,
    << <<"i","s","l","e">>, << <<"A","Y","1">>, <<"L">> >> >>,
    << <<"k","n","i","g","h","t">>, << <<"N">>, <<"A","Y","1">>, <<"T">> >> >>,
    << <<"k","n","e","e">>, << <<"N">>, <<"I","Y","1">> >> >>,
    << <<"k","n","i","f","e">>, << <<"N">>, <<"A","Y","1">>, <<"F">> >> >>,
    << <<"k","n","o","w">>, << <<"N">>, <<"O","W","1">> >> >>,
    << <<"g","n","o","m","e">>, << <<"N">>, <<"O","W","1">>, <<"M">> >> >>,
    << <<"g","n","a","t">>, << <<"N">>, <<"A","E","1">>, <<"T">> >> >>,
    << <<"w","r","i","t","e">>, << <<"R">>, <<"A","Y","1">>, <<"T">> >> >>,
    << <<"w","r","o","n","g">>, << <<"R">>, <<"A","O","1">>, <<"N","G">> >> >>,
    << <<"w","r","i","s","t">>, << <<"R">>, <<"I","H","1">>, <<"S">>, <<"T">> >> >>,
    << <<"l","a","m","b">>, << <<"L">>, <<"A","E","1">>, <<"M">> >> >>,
    << <<"c","o","m","b">>, << <<"K">>, <<"O","W","1">>, <<"M">> >> >>,
    << <<"t","o","m","b">>, << <<"T">>, <<"U","W","1">>, <<"M">> >> >>,
    << <<"t","h","u","m","b">>, << <<"T","H">>, <<"A","H","1">>, <<"M">> >> >>,
    << <<"d","e","b","t">>, << <<"D">>, <<"E","H","1">>, <<"T">> >> >>,
    << <<"d","o","u","b","t">>, << <<"D">>, <<"A","W","1">>, <<"T">> >> >>,
    << <<"p","s","y","c","h","o","l","o","g","y">>, << <<"S">>, <<"A","Y","0">>, <<"K">>, <<"A","A","1">>, <<"L">>, <<"A","H","0">>, <<"J","H">>, <<"I","Y","0">> >> >>,
    << <<"p","n","e","u","m","o","n","i","a">>, << <<"N">>, <<"U","W","0">>, <<"M">>, <<"O","W","1">>, <<"N">>, <<"Y">>, <<"A","H","0">> >> >>,
    << <<"r","h","y","t","h","m">>, << <<"R">>, <<"I","H","1">>, <<"D","H">>, <<"A","H","0">>, <<"M">> >> >>,
    << <<"p","h","o","n","e">>, << <<"F">>, <<"O","W","1">>, <<"N">> >> >>,
    << <<"g","r","a","p","h">>, << <<"G">>, <<"R">>, <<"A","E","1">>, <<"F">> >> >>,
    << <<"l","a","u","g","h">>, << <<"L">>, <<"A","E","1">>, <<"F">> >> >>,
    << <<"c","o","u","g","h">>, << <<"K">>, <<"A","O","1">>, <<"F">> >> >>,
    << <<"r","o","u","g","h">>, << <<"R">>, <<"A","H","1">>, <<"F">> >> >>,
    << <<"t","o","u","g","h">>, << <<"T">>, <<"A","H","1">>, <<"F">> >> >>,
    << <<"e","n","o","u","g","h">>, << <<"I","H","0">>, <<"N">>, <<"A","H","1">>, <<"F">> >> >>,
    << <<"o","n","e">>, << <<"W">>, <<"A","H","1">>, <<"N">> >> >>,
    << <<"o","n","c","e">>, << <<"W">>, <<"A","H","1">>, <<"N">>, <<"S">> >> >>,
    << <<"t","w","o">>, << <<"T">>, <<"U","W","1">> >> >>,
    << <<"e","i","g","h","t">>, << <<"E","Y","1">>, <<"T">> >> >>,
    << <<"w","o","m","e","n">>, << <<"W">>, <<"I","H","1">>, <<"M">>, <<"A","H","0">>, <<"N">> >> >>,
    << <<"w","o","m","a","n">>, << <<"W">>, <<"U","H","1">>, <<"M">>, <<"A","H","0">>, <<"N">> >> >>,
    << <<"b","u","s","y">>, << <<"B">>, <<"I","H","1">>, <<"Z">>, <<"I","Y","0">> >> >>,
    << <<"b","u","s","i","n","e","s","s">>, << <<"B">>, <<"I","H","1">>, <<"Z">>, <<"N">>, <<"A","H","0">>, <<"S">> >> >>,
    << <<"m","i","n","u","t","e">>, << <<"M">>, <<"A","Y","0">>, <<"N">>, <<"U","W","1">>, <<"T">> >> >>
  >>
DefaultTable ==
  <<
    << "a", <<"A","E","0">> >>,
    << "b", <<"B">> >>,
    << "c", <<"K">> >>,
    << "d", <<"D">> >>,
    << "e", <<"E","H","0">> >>,
    << "f", <<"F">> >>,
    << "g", <<"G">> >>,
    << "h", <<"H","H">> >>,
    << "i", <<"I","H","0">> >>,
    << "j", <<"J","H">> >>,
    << "k", <<"K">> >>,
    << "l", <<"L">> >>,
    << "m", <<"M">> >>,
    << "n", <<"N">> >>,
    << "o", <<"O","W","0">> >>,
    << "p", <<"P">> >>,
    << "q", <<"K">> >>,
    << "r", <<"R">> >>,
    << "s", <<"S">> >>,
    << "t", <<"T">> >>,
    << "u", <<"U","H","0">> >>,
    << "v", <<"V">> >>,
    << "w", <<"W">> >>,
    << "x", <<"K">> >>,
    << "y", <<"Y">> >>,
    << "z", <<"Z">> >>
  >>

\* a sort by descending priority that reverses the elements of equal
\* priority
SortByPriority_Unstable(rs) ==
  LET before(i) == { j \in DOMAIN rs :
                      \/ rs[j].priority > rs[i].priority
                      \/ rs[j].priority = rs[i].priority /\ j > i }
      place == [ i \in DOMAIN rs |-> Cardinality(before(i)) + 1 ]
  IN  [ k \in DOMAIN rs |-> rs[CHOOSE i \in DOMAIN rs : place[i] = k] ]

\* Vec::sort_by(|a, b| b.priority.cmp(&a.priority)): a stable sort by
\* descending priority.  An element's place is the number of elements that
\* go before it: those of higher priority, and those of equal priority that
\* stood before it.
SortByPriority(rs) ==
  LET before(i) == { j \in DOMAIN rs :
                      \/ rs[j].priority > rs[i].priority
                      \/ rs[j].priority = rs[i].priority /\ j < i }
      place == [ i \in DOMAIN rs |-> Cardinality(before(i)) + 1 ]
  IN  [ k \in DOMAIN rs |-> rs[CHOOSE i \in DOMAIN rs : place[i] = k] ]

\* self.rules after load_builtin_rules
Rules == SortByPriority(BuiltinRules)


\* build_index: under each first character, the indices (0-based, as in the
\* code) of the rules whose pattern starts with it, in increasing order
IndicesOf(rules, first_char) ==
  LET Starts(idx) == rules[idx + 1].pattern # << >> /\ rules[idx + 1].pattern[1] = first_char
  IN  SelectSeq([ i \in 1..Len(rules) |-> i - 1 ], Starts)

FirstChars(rules) ==
  { rules[i].pattern[1] : i \in { j \in DOMAIN rules : rules[j].pattern # << >> } }

build_index(rules) == [ c \in FirstChars(rules) |-> IndicesOf(rules, c) ]

\* self.rule_groups after build_index
RuleGroups == build_index(Rules)

\* the value HashMap::insert leaves under a key when the rows of a table are
\* inserted in order: the one of the last row with that key
LastValue(table, key) ==
  table[CHOOSE i \in DOMAIN table :
          /\ table[i][1] = key
          /\ \A j \in DOMAIN table : table[j][1] = key => j <= i][2]

load_irregular_words(table) ==
  [ w \in { table[i][1] : i \in DOMAIN table } |-> LastValue(table, w) ]

\* self.irregular_words after load_irregular_words
IrregularWords == load_irregular_words(IrregularTable)

\* the engine after load_builtin_rules and load_irregular_words, its index
\* still empty
BuiltinEngine ==
  [ rules |-> Rules, irregular_words |-> IrregularWords,
    rule_groups |-> [ c \in {} |-> << >> ] ]

\* parse_rules: the rule file's content is passed in and nothing is done
\* with it; the engine is left as it is and Ok(()) is returned
parse_rules(self, content) == self

\* the end of load_english_rules: build_index on the engine's rules
Indexed(self) == [ self EXCEPT !.rule_groups = build_index(self.rules) ]

\* the arm of the match of get_default_phoneme: Some(symbol) is the symbol,
\* None the empty sequence
DefaultOf(rows) == IF rows = {} THEN << >> ELSE (CHOOSE r \in rows : TRUE)[2]

\* a get_default_phoneme that matches the character as written
get_default_phoneme_AsWritten(ch) == DefaultOf(RowsOf(DefaultTable, ch))

get_default_phoneme(ch) == DefaultOf(RowsOf(DefaultTable, to_ascii_lowercase(ch)))

is_vowel(ch) == to_ascii_lowercase(ch) \in { "a", "e", "i", "o", "u", "y" }

\* Option::None and Option::Some
None == [ some |-> FALSE ]
Some(v) == [ some |-> TRUE, val |-> v ]

\* HashMap::get
get(map, key) == IF key \in DOMAIN map THEN Some(map[key]) ELSE None

(***************************************************************************)
(* A call that can abort (an index out of range, an arithmetic overflow    *)
(* under overflow checks) returns Panic, and otherwise Ok(value).          *)
(***************************************************************************)
Panic == [ panic |-> TRUE ]
Ok(v) == [ panic |-> FALSE, val |-> v ]

\* the loop `for (i, &c) in chars.iter().enumerate()
\*             { if word[start + i].to_ascii_lowercase() != c { return .. } }`
\* of rule_matches, check_right_context and check_left_context: Ok(TRUE) when
\* it runs through, Ok(FALSE) when it returns early, Panic when it indexes
\* word out of range
CompareAt(chars, word, start) ==
  LET outside(i) == start + i >= Len(word)
      differs(i) == ~outside(i) /\ to_ascii_lowercase(word[start + i + 1]) # chars[i + 1]
      stops == { i \in 0..(Len(chars) - 1) : outside(i) \/ differs(i) }
      first == CHOOSE i \in stops : \A j \in stops : i <= j
  IN  IF stops = {} THEN Ok(TRUE)
      ELSE IF outside(first) THEN Panic ELSE Ok(FALSE)

\* a check_right_context that compares without asking first whether the
\* context fits into the word
check_right_context_Unbounded(context, word, pos) ==
  IF context = << "_" >> THEN Ok(pos >= Len(word))
  ELSE CompareAt(context, word, pos)

check_right_context(context, word, pos) ==
  IF context = << "_" >> THEN Ok(pos >= Len(word))
  ELSE IF pos + Len(context) > Len(word) THEN Ok(FALSE)
  ELSE CompareAt(context, word, pos)

check_left_context(context, word, pos) ==
  IF context = << "_" >> THEN Ok(pos = 0)
  ELSE IF Len(context) > pos THEN Ok(FALSE)
  ELSE CompareAt(context, word, pos - Len(context))

\* `word.len() - 1` is a usize subtraction: on an empty word it panics in a
\* build that checks overflow (and wraps to usize::MAX, making the comparison
\* false, in one that does not); rule_matches calls check_condition only
\* with a pattern matched inside the word, so the word is never empty here
check_condition(condition, word, pos) ==
  CASE condition = "WordStart" -> Ok(pos = 0)
    [] condition = "WordEnd" ->
         IF Len(word) = 0
         THEN Panic
         ELSE Ok(pos = Len(word) - 1)
    [] condition = "BeforeVowel" ->
         IF pos + 1 < Len(word) THEN Ok(is_vowel(word[pos + 2])) ELSE Ok(FALSE)
    [] condition = "AfterVowel" ->
         IF pos > 0
         THEN (IF pos - 1 < Len(word) THEN Ok(is_vowel(word[pos])) ELSE Panic)
         ELSE Ok(FALSE)
    [] OTHER -> Ok(TRUE)

\* one check of rule_matches after another: the later one is made only when
\* the earlier one passed, and the first that fails or aborts decides
AndThen(earlier, later) ==
  IF earlier.panic THEN Panic
  ELSE IF ~earlier.val THEN Ok(FALSE)
  ELSE later

\* the loop over rule.conditions
RECURSIVE check_conditions(_, _, _)
check_conditions(conditions, word, pos) ==
  IF conditions = << >> THEN Ok(TRUE)
  ELSE AndThen(check_condition(Head(conditions), word, pos),
               check_conditions(Tail(conditions), word, pos))

\* Option<usize>::None of rule_matches
NoMatch == -1

\* what rule_matches returns once its checks are through
Matched(rule, passed) ==
  IF passed.panic THEN Panic
  ELSE IF passed.val THEN Ok(rule.priority)
  ELSE Ok(NoMatch)

\* a rule_matches without the check that the pattern fits into the word
rule_matches_Unguarded(rule, word, pos) ==
  Matched(rule,
    AndThen(CompareAt(rule.pattern, word, pos),
    AndThen(IF rule.right_context = NoContext THEN Ok(TRUE)
            ELSE check_right_context(rule.right_context, word,
                                     pos + Len(rule.pattern)),
    AndThen(IF rule.left_context = NoContext THEN Ok(TRUE)
            ELSE check_left_context(rule.left_context, word, pos),
            check_conditions(rule.conditions, word, pos)))))

rule_matches(rule, word, pos) ==
  IF pos + Len(rule.pattern) > Len(word) THEN Ok(NoMatch)
  ELSE Matched(rule,
         AndThen(CompareAt(rule.pattern, word, pos),
         AndThen(IF rule.right_context = NoContext THEN Ok(TRUE)
                 ELSE check_right_context(rule.right_context, word,
                                          pos + Len(rule.pattern)),
         AndThen(IF rule.left_context = NoContext THEN Ok(TRUE)
                 ELSE check_left_context(rule.left_context, word, pos),
                 check_conditions(rule.conditions, word, pos)))))

\* Option<&Rule>::None of find_best_rule, whose Some(rule) is the rule's
\* 0-based index in self.rules
NoRule == -1

\* the loop of find_best_rule over the indices of one group, from the k-th
\* on, with the best rule and priority found so far
RECURSIVE BestFrom(_, _, _, _, _, _)

\* a loop body that takes every rule that matches, whatever its priority,
\* so that the last matching rule of the group is returned
Better_KeepsLast(m, rule_indices, k, word, pos, best_rule, best_priority) ==
  IF m.panic THEN Panic
  ELSE IF m.val # NoMatch
  THEN BestFrom(rule_indices, k + 1, word, pos, rule_indices[k], m.val)
  ELSE BestFrom(rule_indices, k + 1, word, pos, best_rule, best_priority)

\* the body of that loop, once rule_matches has returned m for the k-th
Better(m, rule_indices, k, word, pos, best_rule, best_priority) ==
  IF m.panic THEN Panic
  ELSE IF m.val # NoMatch /\ m.val > best_priority
  THEN BestFrom(rule_indices, k + 1, word, pos, rule_indices[k], m.val)
  ELSE BestFrom(rule_indices, k + 1, word, pos, best_rule, best_priority)

BestFrom(rule_indices, k, word, pos, best_rule, best_priority) ==
  IF k > Len(rule_indices) THEN Ok(best_rule)
  ELSE IF rule_indices[k] >= Len(Rules) THEN Panic
  ELSE Better(rule_matches(Rules[rule_indices[k] + 1], word, pos),
              rule_indices, k, word, pos, best_rule, best_priority)

\* self.rule_groups.get(&current_char): the group is looked up under the
\* character as written in the word
GroupOf(groups, current_char) ==
  IF current_char \in DOMAIN groups THEN groups[current_char] ELSE << >>

find_best_rule(word, pos) ==
  IF pos >= Len(word) THEN Panic
  ELSE BestFrom(GroupOf(RuleGroups, word[pos + 1]), 1, word, pos, NoRule, 0)

NonEmpty(s) == s # << >>

\* the phonemes pushed for a rule: one for each non-empty output
Emit(outputs) == [ i \in DOMAIN outputs |-> from_arpabet(outputs[i]) ]

\* a push of from_arpabet on the default phoneme whether there is one or not
EmitDefault_Always(default_phoneme) == << from_arpabet(default_phoneme) >>

\* the phonemes pushed when no rule was found
EmitDefault(default_phoneme) ==
  IF default_phoneme = << >> THEN << >> ELSE << from_arpabet(default_phoneme) >>

\* a turn that advances one character past the matched pattern
StepOn_SkipsOne(found, rules, word, pos) ==
  IF found.panic THEN Panic
  ELSE IF found.val # NoRule
  THEN Ok([ emit |-> Emit(SelectSeq(rules[found.val + 1].phonemes, NonEmpty)),
            advance |-> Len(rules[found.val + 1].pattern) + 1 ])
  ELSE Ok([ emit |-> EmitDefault(get_default_phoneme(word[pos + 1])),
            advance |-> 1 ])

\* the arms of the match in the while loop of apply_rules
StepOn(found, rules, word, pos) ==
  IF found.panic THEN Panic
  ELSE IF found.val # NoRule
  THEN Ok([ emit |-> Emit(SelectSeq(rules[found.val + 1].phonemes, NonEmpty)),
            advance |-> Len(rules[found.val + 1].pattern) ])
  ELSE Ok([ emit |-> EmitDefault(get_default_phoneme(word[pos + 1])),
            advance |-> 1 ])

\* one turn of the while loop of apply_rules at position pos: the phonemes
\* it pushes and the number of characters it advances by
scan_step(word, pos) == StepOn(find_best_rule(word, pos), Rules, word, pos)

\* the while loop of apply_rules from position pos on
RECURSIVE scan_from(_, _, _)

\* the loop goes on after a turn
Continue(s, word, pos, acc) ==
  IF s.panic THEN Panic
  ELSE scan_from(word, pos + s.val.advance, acc \o s.val.emit)

scan_from(word, pos, acc) ==
  IF pos >= Len(word) THEN Ok(acc)
  ELSE Continue(scan_step(word, pos), word, pos, acc)

\* an irregular-word lookup under the word as written
get_irregular_AsWritten(word) == get(IrregularWords, word)

\* self.irregular_words.get(&word.to_lowercase())
get_irregular(word) == get(IrregularWords, to_lowercase(word))

\* the body of apply_rules after the irregular words were consulted
ApplyOn(irregular, word) ==
  IF irregular.some THEN Ok(Emit(irregular.val))
  ELSE scan_from(word, 0, << >>)

\* an apply_rules that keeps a scan position across calls: once an earlier
\* result is held, the scan starts at position 1
apply_rules_Resumes(word) ==
  IF memo.some /\ word # << >> THEN scan_from(word, 1, << >>)
  ELSE ApplyOn(get_irregular(word), word)

\* RulesEngine::apply_rules
apply_rules(word) == ApplyOn(get_irregular(word), word)
(***************************************************************************)
(* Dictionary (src/src/dict.rs).                                           *)
(***************************************************************************)

\* bytes of a source file that are not valid UTF-8 (ISO-8859-1 letters)
InvalidBytes == { "0xE9", "0xE0" }

\* String::from_utf8_lossy on one line: every invalid byte becomes U+FFFD
from_utf8_lossy(bytes) ==
  [ i \in DOMAIN bytes |-> IF bytes[i] \in InvalidBytes THEN "U+FFFD" ELSE bytes[i] ]

starts_with(s, prefix) == IsAt(s, prefix, 0)

\* the limits of is_valid_line, is_valid_word_part, is_valid_phonemes_part,
\* parse_phonemes / is_valid_arpabet and the two eprintln! calls of
\* load_cmu_dict
MinLineLen == 3
MaxLineLen == 200
MaxWordPartLen == 50
MaxPhonemesPartLen == 100
MaxTokenLen == 4
MaxWarnings == 10
TruncateLen == 50

is_valid_line(line) ==
  /\ ~(byte_len(trim(line)) < MinLineLen \/ byte_len(line) > MaxLineLen)
  /\ \A i \in DOMAIN line : is_ascii(line[i]) \/ is_whitespace(line[i])
  /\ \E i \in DOMAIN line : is_ascii_alphabetic(line[i])

\* str::is_char_boundary
is_char_boundary(s, index) ==
  \E k \in 0..Len(s) : byte_len(SubSeq(s, 1, k)) = index

\* &s[..max_len] slices by bytes and panics when max_len is not a character
\* boundary of s
truncate_string(s, max_len) ==
  IF byte_len(s) <= max_len THEN Ok(s)
  ELSE IF ~is_char_boundary(s, max_len) THEN Panic
  ELSE LET k == CHOOSE k \in 0..Len(s) : byte_len(SubSeq(s, 1, k)) = max_len
       IN  Ok(SubSeq(s, 1, k) \o << ".", ".", "." >>)

\* an is_valid_word_part without the limit on the length of the word part
is_valid_word_part_NoLimit(word) ==
  /\ word # << >>
  /\ \A i \in DOMAIN word :
       is_ascii_alphabetic(word[i]) \/ word[i] \in { "(", ")", "'", "-" } \cup DigitSet

is_valid_word_part(word) ==
  /\ ~(word = << >> \/ byte_len(word) > MaxWordPartLen)
  /\ \A i \in DOMAIN word :
       is_ascii_alphabetic(word[i]) \/ word[i] \in { "(", ")", "'", "-" } \cup DigitSet

is_valid_phonemes_part(part) ==
  /\ ~(part = << >> \/ byte_len(part) > MaxPhonemesPartLen)
  /\ \A i \in DOMAIN part :
       \/ is_ascii_alphabetic(part[i])
       \/ is_ascii_digit(part[i])
       \/ is_ascii_whitespace(part[i])
  /\ \E i \in DOMAIN part : is_ascii_alphabetic(part[i])

separators == << << " ", " " >>, << "\t" >> >>

\* line[..pos].trim() and line[pos..].trim()
SplitAt(line, at) ==
  << trim(SubSeq(line, 1, at)), trim(SubSeq(line, at + 1, Len(line))) >>

ValidParts(parts) ==
  /\ parts[1] # << >> /\ parts[2] # << >>
  /\ is_valid_word_part(parts[1])
  /\ is_valid_phonemes_part(parts[2])

\* the loop of parse_cmu_line over the separators from the k-th on;
\* Some(<<word_part, phonemes_part>>) or None
RECURSIVE SplitFrom(_, _)

\* the body of that loop, once line.find(separator) has returned
TrySeparator(line, at, k) ==
  IF at # -1 /\ ValidParts(SplitAt(line, at)) THEN Some(SplitAt(line, at))
  ELSE SplitFrom(line, k + 1)

SplitFrom(line, k) ==
  IF k > Len(separators) THEN None
  ELSE TrySeparator(line, find(line, separators[k]), k)

parse_cmu_line(line) == SplitFrom(trim(line), 1)

IsKeyChar(c) == is_ascii_alphabetic(c) \/ c = "'"

\* &word[..pos] for the position of the first '(' when there is one
BeforeParen(word, at) == IF at # -1 THEN SubSeq(word, 1, at) ELSE word

clean_word(word) ==
  SelectSeq(to_lowercase(BeforeParen(word, find(word, << "(" >>))), IsKeyChar)

VALID_PHONEMES ==
  { <<"A","A">>, <<"A","E">>, <<"A","H">>, <<"A","O">>, <<"A","W">>, <<"A","Y">>,
    <<"E","H">>, <<"E","R">>, <<"E","Y">>, <<"I","H">>, <<"I","Y">>, <<"O","W">>,
    <<"O","Y">>, <<"U","H">>, <<"U","W">>, <<"B">>, <<"C","H">>, <<"D">>,
    <<"D","H">>, <<"F">>, <<"G">>, <<"H","H">>, <<"J","H">>, <<"K">>,
    <<"L">>, <<"M">>, <<"N">>, <<"N","G">>, <<"P">>, <<"R">>,
    <<"S">>, <<"S","H">>, <<"T">>, <<"T","H">>, <<"V">>, <<"W">>,
    <<"Y">>, <<"Z">>, <<"Z","H">>, <<"Q">>, <<"X">> }

IsAsciiAlnum(c) == is_ascii_alphabetic(c) \/ is_ascii_digit(c)

\* base_phoneme: the token without its last character when that is a digit
base_phoneme(phoneme) ==
  IF is_ascii_digit(phoneme[Len(phoneme)]) THEN ButLast(phoneme) ELSE phoneme

is_valid_arpabet(phoneme) ==
  /\ ~(phoneme = << >> \/ byte_len(phoneme) > MaxTokenLen)
  /\ \A i \in DOMAIN phoneme : IsAsciiAlnum(phoneme[i])
  /\ ~(is_ascii_digit(phoneme[Len(phoneme)]) /\ ~(Len(phoneme) > 1))
  /\ to_uppercase(base_phoneme(phoneme)) \in VALID_PHONEMES

\* the end of try_fix_phoneme, on the token without its other characters
FixedOr(cleaned) == IF is_valid_arpabet(cleaned) THEN Some(cleaned) ELSE None

try_fix_phoneme(token) == FixedOr(SelectSeq(token, IsAsciiAlnum))

\* the phoneme pushed for a token try_fix_phoneme was called on
PushFixed(fixed) == IF fixed.some THEN << from_arpabet(fixed.val) >> ELSE << >>

\* the body of the loop of parse_phonemes: what one token pushes
PushToken(token) ==
  IF byte_len(token) > MaxTokenLen \/ token = << >> THEN << >>
  ELSE IF is_valid_arpabet(token) THEN << from_arpabet(token) >>
  ELSE PushFixed(try_fix_phoneme(token))

\* the loop of parse_phonemes over the tokens
RECURSIVE PhonemesOf(_)
PhonemesOf(tokens) ==
  IF tokens = << >> THEN << >>
  ELSE PushToken(Head(tokens)) \o PhonemesOf(Tail(tokens))

\* the end of parse_phonemes: Some(phonemes) is Ok(phonemes), None is Err
PhonemesResult(parsed) == IF parsed = << >> THEN None ELSE Some(parsed)

\* parse_phonemes: without tokens no phoneme is pushed, so that either Err
\* is the one of PhonemesResult
parse_phonemes(phonemes_str) == PhonemesResult(PhonemesOf(split_whitespace(phonemes_str)))

\* an insert that keeps the value a key already has
insert_KeepFirst(map, key, value) ==
  [ k \in DOMAIN map \cup { key } |-> IF k \in DOMAIN map THEN map[k] ELSE value ]

\* HashMap::insert
insert(map, key, value) ==
  [ k \in DOMAIN map \cup { key } |-> IF k = key THEN value ELSE map[k] ]

NoEntries == [ k \in {} |-> << >> ]

\* the state of load_cmu_dict before its loop
LoadStart ==
  [ panic |-> FALSE, entries |-> NoEntries,
    line_count |-> 0, valid_entries |-> 0, skipped_lines |-> 0 ]

\* line_count += 1
Counted(st) == [ st EXCEPT !.line_count = @ + 1 ]

\* a line is skipped: skipped_lines += 1, and for the first MaxWarnings
\* skipped lines the warning is formatted with truncate_string
SkipLine(st, line) ==
  IF st.skipped_lines + 1 <= MaxWarnings /\ truncate_string(line, TruncateLen).panic
  THEN [ st EXCEPT !.skipped_lines = @ + 1, !.panic = TRUE ]
  ELSE [ st EXCEPT !.skipped_lines = @ + 1 ]

\* the match on parse_phonemes: Ok inserts the entry, Err only warns
InsertParsed(st, word, pronunciation) ==
  IF pronunciation.some
  THEN [ st EXCEPT !.entries = insert(@, clean_word(word), pronunciation.val),
                   !.valid_entries = @ + 1 ]
  ELSE st

\* the `if let` on parse_cmu_line
OnParsed(st, line, parsed) ==
  IF parsed.some THEN InsertParsed(st, parsed.val[1], parse_phonemes(parsed.val[2]))
  ELSE SkipLine(st, line)

\* one turn of the loop of load_cmu_dict, on the state st of its local
\* variables
load_line(st, line) ==
  IF starts_with(line, << ";", ";", ";" >>) \/ trim(line) = << >> THEN Counted(st)
  ELSE IF ~is_valid_line(line) THEN SkipLine(Counted(st), line)
  ELSE OnParsed(Counted(st), line, parse_cmu_line(line))

\* the loop of load_cmu_dict: a panic ends it
RECURSIVE load_lines(_, _)
load_lines(st, lines) ==
  IF lines = << >> \/ st.panic THEN st
  ELSE load_lines(load_line(st, Head(lines)), Tail(lines))

\* Dictionary::load_cmu_dict on a file that may not exist: status "ok" is
\* Ok(Dictionary { entries }), "err" an Err, "panic" a panic
LoadResult(status, st) ==
  [ status |-> status, entries |-> st.entries, line_count |-> st.line_count,
    valid_entries |-> st.valid_entries, skipped_lines |-> st.skipped_lines ]

\* the end of load_cmu_dict, after its loop
Loaded(st) ==
  IF st.panic THEN LoadResult("panic", st)
  ELSE IF st.valid_entries = 0 THEN LoadResult("err", st)
  ELSE LoadResult("ok", st)

\* content.lines() of the file's bytes
lines_of(file) == [ i \in DOMAIN file.lines |-> from_utf8_lossy(file.lines[i]) ]

load_cmu_dict(file) ==
  IF ~file.exists THEN LoadResult("err", LoadStart)
  ELSE Loaded(load_lines(LoadStart, lines_of(file)))

\* a lookup under the word as written
lookup_AsWritten(dictionary, word) == get(dictionary, word)

\* Dictionary::lookup
lookup(dictionary, word) == get(dictionary, to_lowercase(word))

\* the order of String: the bytes are compared one by one, and a proper
\* prefix comes first.  The keys are made of ASCII letters and apostrophes
ByteOf(c) ==
  IF c \in LowerSet THEN 96 + (CHOOSE i \in DOMAIN Lowers : Lowers[i] = c)
  ELSE IF c \in UpperSet THEN 64 + (CHOOSE i \in DOMAIN Uppers : Uppers[i] = c)
  ELSE 39

StringLess(a, b) ==
  \E k \in 1..(Len(b)) :
    /\ \A i \in 1..(k - 1) : i <= Len(a) /\ a[i] = b[i]
    /\ (k > Len(a) \/ (k <= Len(a) /\ ByteOf(a[k]) < ByteOf(b[k])))

\* keys().cloned().collect() followed by words.sort()
SortedKeys(dictionary) ==
  [ n \in 1..Cardinality(DOMAIN dictionary) |->
      CHOOSE k \in DOMAIN dictionary :
        Cardinality({ j \in DOMAIN dictionary : StringLess(j, k) }) = n - 1 ]

\* Dictionary::get_sample_words
get_sample_words(dictionary, count) ==
  SubSeq(SortedKeys(dictionary), 1,
         IF count < Cardinality(DOMAIN dictionary) THEN count
         ELSE Cardinality(DOMAIN dictionary))

(***************************************************************************)
(* TextProcessor (src/src/text.rs).                                        *)
(***************************************************************************)

number_words_table ==
  <<
    << <<"0">>, <<"z","e","r","o">> >>,
    << <<"1">>, <<"o","n","e">> >>,
    << <<"2">>, <<"t","w","o">> >>,
    << <<"3">>, <<"t","h","r","e","e">> >>,
    << <<"4">>, <<"f","o","u","r">> >>,
    << <<"5">>, <<"f","i","v","e">> >>,
    << <<"6">>, <<"s","i","x">> >>,
    << <<"7">>, <<"s","e","v","e","n">> >>,
    << <<"8">>, <<"e","i","g","h","t">> >>,
    << <<"9">>, <<"n","i","n","e">> >>,
    << <<"1","0">>, <<"t","e","n">> >>,
    << <<"1","1">>, <<"e","l","e","v","e","n">> >>,
    << <<"1","2">>, <<"t","w","e","l","v","e">> >>,
    << <<"1","3">>, <<"t","h","i","r","t","e","e","n">> >>,
    << <<"1","4">>, <<"f","o","u","r","t","e","e","n">> >>,
    << <<"1","5">>, <<"f","i","f","t","e","e","n">> >>,
    << <<"1","6">>, <<"s","i","x","t","e","e","n">> >>,
    << <<"1","7">>, <<"s","e","v","e","n","t","e","e","n">> >>,
    << <<"1","8">>, <<"e","i","g","h","t","e","e","n">> >>,
    << <<"1","9">>, <<"n","i","n","e","t","e","e","n">> >>,
    << <<"2","0">>, <<"t","w","e","n","t","y">> >>
  >>

abbreviations_table ==
  <<
    << <<"d","r",".">>, <<"d","o","c","t","o","r">> >>,
    << <<"m","r",".">>, <<"m","i","s","t","e","r">> >>,
    << <<"m","r","s",".">>, <<"m","i","s","s","e","s">> >>,
    << <<"m","s",".">>, <<"m","i","s","s">> >>,
    << <<"p","r","o","f",".">>, <<"p","r","o","f","e","s","s","o","r">> >>,
    << <<"s","t",".">>, <<"s","t","r","e","e","t">> >>,
    << <<"a","v","e",".">>, <<"a","v","e","n","u","e">> >>,
    << <<"b","l","v","d",".">>, <<"b","o","u","l","e","v","a","r","d">> >>,
    << <<"e","t","c",".">>, <<"e","t","c","e","t","e","r","a">> >>,
    << <<"v","s",".">>, <<"v","e","r","s","u","s">> >>
  >>

\* str::replace: the non-overlapping occurrences of from, left to right
RECURSIVE replace(_, _, _)
replace(s, from, to) ==
  IF s = << >> THEN << >>
  ELSE IF IsAt(s, from, 0)
       THEN to \o replace(SubSeq(s, Len(from) + 1, Len(s)), from, to)
       ELSE << Head(s) >> \o replace(Tail(s), from, to)

\* expand_abbreviations: the loop over the abbreviations from the k-th on.
\* The code iterates a HashMap, in an order it does not fix; here the order
\* is the one the abbreviations are inserted in.  The order shows only in a
\* text where an expansion, with what follows it, spells another
\* abbreviation ("blvd.r."), which none of Texts does.
RECURSIVE ExpandFrom(_, _)
ExpandFrom(text, k) ==
  IF k > Len(abbreviations_table) THEN text
  ELSE ExpandFrom(replace(text, abbreviations_table[k][1], abbreviations_table[k][2]), k + 1)

expand_abbreviations(text) == ExpandFrom(text, 1)

\* self.number_words.get(number).unwrap_or(&number)
NumberOr(rows, number) == IF rows = {} THEN number ELSE (CHOOSE r \in rows : TRUE)[2]

number_word(number) == NumberOr(RowsOf(number_words_table, number), number)

\* the last index of the run of digits of s that starts at index i
RECURSIVE RunEnd(_, _)
RunEnd(s, i) == IF i < Len(s) /\ is_ascii_digit(s[i + 1]) THEN RunEnd(s, i + 1) ELSE i

\* expand_numbers: NUMBER_RE is \b\d+\b, which matches a maximal run of
\* digits that has no word character on either side
RECURSIVE NumbersFrom(_, _)
NumbersFrom(s, i) ==
  IF i > Len(s) THEN << >>
  ELSE IF is_ascii_digit(s[i])
       THEN LET j == RunEnd(s, i)
                bounded == /\ (i = 1 \/ ~is_word_char(s[i - 1]))
                           /\ (j = Len(s) \/ ~is_word_char(s[j + 1]))
            IN  (IF bounded THEN number_word(SubSeq(s, i, j)) ELSE SubSeq(s, i, j))
                  \o NumbersFrom(s, j + 1)
       ELSE << s[i] >> \o NumbersFrom(s, i + 1)

expand_numbers(text) == NumbersFrom(text, 1)

\* clean_punctuation: PUNCT_RE is [^\w\s]
clean_punctuation(text) ==
  [ i \in DOMAIN text |->
      IF ~is_word_char(text[i]) /\ ~is_whitespace(text[i]) THEN " " ELSE text[i] ]

\* WHITESPACE_RE is \s+: every run of whitespace becomes one space
RECURSIVE Collapse(_)
Collapse(s) ==
  IF s = << >> THEN << >>
  ELSE IF is_whitespace(Head(s))
       THEN << " " >> \o Collapse(trim_start_matches(s, Whitespace(s)))
       ELSE << Head(s) >> \o Collapse(Tail(s))

normalize_whitespace(text) == Collapse(trim(text))

\* TextProcessor::normalize
normalize(text) ==
  normalize_whitespace(clean_punctuation(expand_numbers(
    expand_abbreviations(to_lowercase(text)))))

\* |c: char| !c.is_alphabetic(), on each character of a word
NotAlphabetic(word) == [ i \in DOMAIN word |-> ~is_alphabetic(word[i]) ]

\* TextProcessor::tokenize
tokenize(text) ==
  LET parts == split_whitespace(text)
      trimmed == [ i \in DOMAIN parts |-> trim_matches(parts[i], NotAlphabetic(parts[i])) ]
  IN  SelectSeq(trimmed, NonEmpty)

(***************************************************************************)
(* Converter (src/src/lib.rs).                                             *)
(***************************************************************************)

\* a word_to_phonemes that asks the rules engine without consulting the
\* dictionary
word_to_phonemes_RulesFirst(dictionary, word) == apply_rules(to_lowercase(word))

\* the `if let` of word_to_phonemes on the lower-cased word
ConvertWord(found, word) ==
  IF found.some THEN Ok(found.val) ELSE apply_rules(word)

\* RustG2P::word_to_phonemes
word_to_phonemes(dictionary, word) ==
  ConvertWord(lookup(dictionary, to_lowercase(word)), to_lowercase(word))

\* the body of the loop of text_to_phonemes: the phonemes of the word are
\* appended, then a word boundary
ExtendWith(word_phonemes, rest) ==
  IF word_phonemes.panic \/ rest.panic THEN Panic
  ELSE Ok(word_phonemes.val \o << word_boundary >> \o rest.val)

\* the loop of text_to_phonemes over the words
RECURSIVE WordsToPhonemes(_, _)
WordsToPhonemes(dictionary, words) ==
  IF words = << >> THEN Ok(<< >>)
  ELSE ExtendWith(word_to_phonemes(dictionary, Head(words)),
                  WordsToPhonemes(dictionary, Tail(words)))

\* a text_to_phonemes that pushes the word boundary between words only
DropLast(r) == IF r.panic \/ r.val = << >> THEN r ELSE Ok(ButLast(r.val))
text_to_phonemes_NoLastBoundary(dictionary, text) ==
  DropLast(WordsToPhonemes(dictionary, tokenize(normalize(text))))

\* RustG2P::text_to_phonemes
text_to_phonemes(dictionary, text) ==
  WordsToPhonemes(dictionary, tokenize(normalize(text)))

(***************************************************************************)
(* The inputs.                                                             *)
(***************************************************************************)
Repeat(c, n) == [ i \in 1..n |-> c ]

\* the sequences over S of length at most n
RECURSIVE SeqsUpTo(_, _)
SeqsUpTo(S, n) ==
  IF n = 0 THEN { << >> }
  ELSE LET shorter == SeqsUpTo(S, n - 1)
       IN  shorter \cup { Append(s, c) : s \in shorter, c \in S }

\* lines of a lexicon source, as the bytes of the file hold them
LexiconLines ==
  { << "C", "A", "T", " ", " ", "K", " ", "A", "E", "1", " ", "T" >>,
    << "H", "E", "L", "L", "O", "(", "1", ")", " ", " ", "H", "H", " ", "A", "H", "0", " ", "L", " ", "O", "W", "1" >>,
    << "H", "E", "L", "L", "O", " ", " ", "H", "H", " ", "E", "H", "0", " ", "L", " ", "O", "W", "1" >>,
    << "Y", "A", "C", "H", "T", " ", " ", "Y", " ", "A", "O", "1", " ", "T" >>,
    << "t", "h", "e", "\t", "D", "H", " ", "A", "H", "0" >>,
    << ";", ";", ";", " ", "n", "o", "t", "e" >>,
    << >>,
    << "N", "O", "S", "E", "P", " ", "K", " ", "A", "E", "1" >>,
    << "B", "A", "D", " ", " ", "Q", "Q", " ", "Z", "Z" >>,
    << "C", "A", "F", "U+00E9", " ", " ", "K", " ", "A", "E", "0", " ", "F", " ", "E", "Y", "1" >>,
    << "D", "0xE9", "J", "0xE0", " ", " ", "D", " ", "E", "Y", "1", " ", "Z", "H", " ", "A", "A", "1" >>,
    \* a two-byte character at byte offsets 49 and 50: offset 50 is inside it
    Repeat("A", 49) \o << "U+00E9", " ", " ", "K" >>,
    \* a two-byte character at byte offsets 50 and 51: offset 50 is its start
    Repeat("A", 50) \o << "U+00E9", " ", " ", "K" >> }

LexiconFiles ==
  { [ exists |-> FALSE, lines |-> << >> ] }
    \cup { [ exists |-> TRUE, lines |-> ls ] : ls \in SeqsUpTo(LexiconLines, MaxLines) }

\* lines of the lexicon source a Dictionary of its own is loaded from:
\* entries with tokens in lower case, with the symbols Q and X and with
\* digits other than 0, 1 and 2, lines without a usable token, and lines at
\* the length limits of the line and of its two fields
DictionaryLines ==
  { << "C", "A", "T", " ", " ", "K", " ", "A", "E", "1", " ", "T" >>,
    << "c", "a", "t", " ", " ", "k", " ", "a", "e", "1", " ", "t" >>,
    << "D", "O", "G", " ", " ", "D", " ", "A", "O", "5", " ", "G", " ", "Q" >>,
    << "M", "I", "X", " ", " ", "X", " ", "Z", "Z", " ", "A", "E", "1", "2", " ", "T", "2" >>,
    << "B", "A", "D", " ", " ", "Q", "Q", " ", "Z", "Z" >>,
    << ";", ";", ";", " ", "n", "o", "t", "e" >>,
    << "A", "B" >>,
    << "N", "O", "S", "E", "P", " ", "K", " ", "A", "E", "1" >>,
    << "T", "A", "B", " ", " ", "\t", "T", " ", "A", "E", "1", " ", "B" >>,
    Repeat("A", 49) \o << "U+00E9", " ", " ", "K" >>,
    \* a word field without a letter
    << "(", "1", ")", " ", " ", "K" >>,
    \* a word field of 50 and of 51 bytes
    Repeat("A", 50) \o << " ", " ", "K" >>,
    Repeat("A", 51) \o << " ", " ", "K" >>,
    \* a phoneme field of 100 and of 101 bytes
    << "L", "O", "N", "G", " ", " " >> \o Flatten(Repeat(<< "K", " " >>, 49)) \o << "A", "E" >>,
    << "L", "O", "N", "G", " ", " " >> \o Flatten(Repeat(<< "K", " " >>, 50)) \o << "K" >>,
    \* a line of 200 and of 201 bytes, 6 without the spaces at its end
    << "P", "A", "D", " ", " ", "K" >> \o Repeat(" ", 194),
    << "P", "A", "D", " ", " ", "K" >> \o Repeat(" ", 195) }

DictionaryFiles ==
  { [ exists |-> FALSE, lines |-> << >> ] }
    \cup { [ exists |-> TRUE, lines |-> ls ] : ls \in SeqsUpTo(DictionaryLines, MaxLines) }

\* the words and the pronunciations the caller of a Dictionary passes in
DictionaryWords == { << "c", "a", "t" >>, << "C", "A", "T" >>, << "D", "o", "g" >> }
Pronunciations == { << >>, << from_arpabet(<< "D" >>) >> }

\* data/en_rules.txt: absent, or holding one rule and one irregular word
RuleFiles ==
  { [ exists |-> FALSE, lines |-> << >> ],
    [ exists |-> TRUE, lines |-> << << "z", "z", "|", "|", "|", "Z", "|", "9" >>, << "#", "z", "z", "z", "|", "Z", " ", "I", "Y", "1" >> >> ] }

\* the characters words are enumerated over
ScanAlphabet == { "e", "g", "h", "k", "n", "S", "5", "U+00E9" }

\* the words given to lookup, word_to_phonemes and apply_rules of a converter
Words ==
  SeqsUpTo(ScanAlphabet, 1)
    \cup { << "c", "a", "t" >>, << "C", "A", "T" >>, << "C", "a", "t" >>, << "h", "e", "l", "l", "o" >>, << "H", "e", "L", "L", "o" >>, << "t", "h", "e" >>,
           << "y", "a", "c", "h", "t" >>, << "Y", "A", "C", "H", "T" >>, << "k", "n", "i", "f", "e" >>, << "K", "n", "i", "f", "e" >>, << "k", "n", "i", "t" >>, << "g", "h" >>,
           << "s", "i", "g", "h" >>, << "s", "h", "i", "p" >>, << "S", "H", "I", "P" >>, << "c", "a", "f", "e" >>, << "c", "a", "f", "U+00E9" >>,
           << "U+0130", "s" >>, << "a", "5", "b" >>, << "x", "-", "y" >>, << "p", "s", "e", "u", "d", "o", "w", "o", "r", "d" >> }

\* the symbols Phoneme::from_arpabet is called on: the symbols of the two
\* tables in upper and in lower case, symbols of neither table, the empty
\* symbol, each alone and with a stress digit or another digit after it
BaseSymbols ==
  { VowelTable[i][1] : i \in DOMAIN VowelTable }
    \cup { ConsonantTable[i][1] : i \in DOMAIN ConsonantTable }
    \cup { to_lowercase(VowelTable[i][1]) : i \in DOMAIN VowelTable }
    \cup { to_lowercase(ConsonantTable[i][1]) : i \in DOMAIN ConsonantTable }
    \cup { << "A", "e" >>, << "z", "H" >>, << "Q" >>, << "X" >>, << "A", "X" >>, << "A", "E", "1" >>, << " " >>, << >> }

RawSymbols ==
  { base \o suffix : base \in BaseSymbols,
                     suffix \in { << >>, << "0" >>, << "1" >>, << "2" >>, << "5" >> } }

\* the pieces texts are made of
TextChunks ==
  { << "H", "e", "l", "l", "o" >>, << "c", "a", "t", " " >>, << "," >>, << " " >>, << "5" >>, << "d", "r", "." >>, << "Y", "a", "c", "h", "t", "!" >> }

Texts == { Flatten(cs) : cs \in SeqsUpTo(TextChunks, MaxChunks) }

(***************************************************************************)
(* The operations.                                                         *)
(***************************************************************************)
Idle == [ name |-> "idle" ]

Init ==
  /\ g2p = "none"
  /\ dict = "none"
  /\ entries = NoEntries
  /\ engine = "none"
  /\ op = Idle
  /\ pc = "idle"
  /\ word_chars = << >>
  /\ scan_pos = 0
  /\ scan_phonemes = << >>
  /\ steps = 0
  /\ consumed = << >>
  /\ memo = None

scan_vars == << pc, word_chars, scan_pos, scan_phonemes, steps, consumed >>

\* RulesEngine::load_english_rules: the built-in rules and irregular words,
\* then parse_rules on the rule file when it exists, then build_index
load_english_rules(rule_file) ==
  Indexed(IF rule_file.exists THEN parse_rules(BuiltinEngine, rule_file.lines)
          ELSE BuiltinEngine)

\* the engine apply_rules is modelled on: Rules, RuleGroups and IrregularWords
IsBuiltin(self) ==
  self.rules = Rules /\ self.rule_groups = RuleGroups /\ self.irregular_words = IrregularWords

\* RustG2P::new: the dictionary is loaded from data/cmudict.txt, then the
\* rules engine from data/en_rules.txt; an Err of the first is returned
\* before the second is tried
New(file, rule_file) ==
  /\ g2p = "none" /\ dict = "none" /\ engine = "none"
  /\ \E d \in { load_cmu_dict(file) } :
       /\ g2p' = CASE d.status = "ok" -> "ready"
                   [] d.status = "err" -> "failed"
                   [] d.status = "panic" -> "aborted"
       /\ entries' = IF d.status = "ok" THEN d.entries ELSE NoEntries
       /\ engine' = IF d.status = "ok" /\ IsBuiltin(load_english_rules(rule_file))
                    THEN "ready" ELSE "none"
       /\ op' = [ name |-> "new", input |-> file.lines, exists |-> file.exists,
                  status |-> d.status, line_count |-> d.line_count,
                  valid_entries |-> d.valid_entries,
                  skipped_lines |-> d.skipped_lines ]
  /\ UNCHANGED << dict, scan_vars, memo >>

\* RulesEngine::load_english_rules, for an engine of its own
LoadEnglishRules(rule_file) ==
  /\ g2p = "none" /\ dict = "none" /\ engine = "none"
  /\ \E self \in { load_english_rules(rule_file) } :
       /\ engine' = IF IsBuiltin(self) THEN "ready" ELSE "none"
       /\ op' = [ name |-> "load_english_rules", input |-> rule_file.lines,
                  exists |-> rule_file.exists, rules |-> self.rules,
                  rule_groups |-> self.rule_groups,
                  irregular_words |-> self.irregular_words ]
  /\ UNCHANGED << g2p, dict, entries, scan_vars, memo >>

\* the caller is done with what the last call returned
Return ==
  /\ engine = "ready" /\ op # Idle
  /\ op' = Idle
  /\ UNCHANGED << g2p, dict, entries, engine, scan_vars, memo >>

\* Dictionary::lookup on the converter's dictionary
Lookup(word) ==
  /\ g2p = "ready" /\ op = Idle
  /\ op' = [ name |-> "lookup", input |-> word, result |-> lookup(entries, word) ]
  /\ UNCHANGED << g2p, dict, entries, engine, scan_vars, memo >>

\* RustG2P::word_to_phonemes
WordToPhonemes(word) ==
  /\ g2p = "ready" /\ op = Idle
  /\ op' = [ name |-> "word_to_phonemes", input |-> word,
             result |-> word_to_phonemes(entries, word) ]
  /\ UNCHANGED << g2p, dict, entries, engine, scan_vars, memo >>

\* RustG2P::text_to_phonemes
TextToPhonemes(text) ==
  /\ g2p = "ready" /\ op = Idle
  /\ op' = [ name |-> "text_to_phonemes", input |-> text,
             result |-> text_to_phonemes(entries, text) ]
  /\ UNCHANGED << g2p, dict, entries, engine, scan_vars, memo >>

\* RulesEngine::apply_rules, as one call
ApplyRules(word) ==
  /\ engine = "ready" /\ op = Idle
  /\ op' = [ name |-> "apply_rules", input |-> word, result |-> apply_rules(word) ]
  /\ UNCHANGED << g2p, dict, entries, engine, scan_vars, memo >>

\* the caller keeps the input and the result of a call of apply_rules, once,
\* to compare later calls with, and is done with that call
Remember ==
  /\ op.name = "apply_rules" /\ ~memo.some
  /\ memo' = Some([ word |-> op.input, result |-> op.result ])
  /\ op' = Idle
  /\ UNCHANGED << g2p, dict, entries, engine, scan_vars >>

\* apply_rules followed turn by turn.  Entry: the irregular words are
\* consulted, and the scan starts at position 0 with no phonemes
ApplyBegin(word) ==
  /\ engine = "ready" /\ op = Idle /\ pc = "idle"
  /\ word_chars' = word
  /\ scan_pos' = 0 /\ steps' = 0 /\ consumed' = << >>
  /\ \E irregular \in { get_irregular(word) } :
       IF irregular.some
       THEN scan_phonemes' = Emit(irregular.val) /\ pc' = "done"
       ELSE scan_phonemes' = << >> /\ pc' = "scan"
  /\ UNCHANGED << g2p, dict, entries, engine, op, memo >>

\* one turn of the while loop
ApplyStep ==
  /\ pc = "scan" /\ scan_pos < Len(word_chars)
  /\ \E s \in { scan_step(word_chars, scan_pos) } :
       IF s.panic
       THEN pc' = "panic" /\ UNCHANGED << scan_pos, scan_phonemes, steps, consumed >>
       ELSE /\ scan_phonemes' = scan_phonemes \o s.val.emit
            /\ scan_pos' = scan_pos + s.val.advance
            /\ steps' = steps + 1
            /\ consumed' = Append(consumed, s.val.advance)
            /\ pc' = "scan"
  /\ UNCHANGED << g2p, dict, entries, engine, op, word_chars, memo >>

\* the loop condition fails: Ok(phonemes) is returned
ApplyReturn ==
  /\ pc = "scan" /\ scan_pos >= Len(word_chars)
  /\ pc' = "done"
  /\ UNCHANGED << g2p, dict, entries, engine, op, word_chars, scan_pos, scan_phonemes, steps,
                  consumed, memo >>

\* the caller is done with the phonemes
ApplyFinish ==
  /\ pc = "done"
  /\ pc' = "idle" /\ word_chars' = << >> /\ scan_pos' = 0 /\ scan_phonemes' = << >>
  /\ steps' = 0 /\ consumed' = << >>
  /\ UNCHANGED << g2p, dict, entries, engine, op, memo >>

\* Phoneme::from_arpabet, and the phoneme written with its Display
FromArpabet(symbol) ==
  /\ op = Idle /\ g2p = "none" /\ dict = "none" /\ engine = "none"
  /\ op' = [ name |-> "from_arpabet", input |-> symbol,
             result |-> from_arpabet(symbol), rendered |-> fmt(from_arpabet(symbol)) ]
  /\ UNCHANGED << g2p, dict, entries, engine, scan_vars, memo >>

\* Dictionary::load_cmu_dict, for a Dictionary of its own
LoadCmuDict(file) ==
  /\ op = Idle /\ g2p = "none" /\ dict = "none" /\ engine = "none"
  /\ \E d \in { load_cmu_dict(file) } :
       /\ dict' = CASE d.status = "ok" -> "ready"
                    [] d.status = "err" -> "failed"
                    [] d.status = "panic" -> "aborted"
       /\ entries' = IF d.status = "ok" THEN d.entries ELSE NoEntries
       /\ op' = [ name |-> "load_cmu_dict", input |-> file.lines, exists |-> file.exists,
                  status |-> d.status, line_count |-> d.line_count,
                  valid_entries |-> d.valid_entries,
                  skipped_lines |-> d.skipped_lines ]
  /\ UNCHANGED << g2p, engine, scan_vars, memo >>

\* Dictionary::lookup on that Dictionary
DictLookup(word) ==
  /\ dict = "ready" /\ op = Idle
  /\ op' = [ name |-> "lookup", input |-> word, result |-> lookup(entries, word) ]
  /\ UNCHANGED << g2p, dict, entries, engine, scan_vars, memo >>

\* Dictionary::size
Size ==
  /\ dict = "ready" /\ op = Idle
  /\ op' = [ name |-> "size", result |-> Cardinality(DOMAIN entries) ]
  /\ UNCHANGED << g2p, dict, entries, engine, scan_vars, memo >>

\* Dictionary::is_empty
IsEmpty ==
  /\ dict = "ready" /\ op = Idle
  /\ op' = [ name |-> "is_empty", result |-> entries = NoEntries ]
  /\ UNCHANGED << g2p, dict, entries, engine, scan_vars, memo >>

\* Dictionary::get_sample_words
GetSampleWords(count) ==
  /\ dict = "ready" /\ op = Idle
  /\ op' = [ name |-> "get_sample_words", input |-> count,
             result |-> get_sample_words(entries, count) ]
  /\ UNCHANGED << g2p, dict, entries, engine, scan_vars, memo >>

\* Dictionary::add_entry, which takes &mut self and inserts the phonemes
\* under the lower-cased word
AddEntry(word, phonemes) ==
  /\ dict = "ready" /\ op = Idle
  /\ entries' = insert(entries, to_lowercase(word), phonemes)
  /\ op' = [ name |-> "add_entry", input |-> word, phonemes |-> phonemes,
             before |-> entries ]
  /\ UNCHANGED << g2p, dict, engine, scan_vars, memo >>

\* the caller drops what the last call returned: a phoneme, or the result
\* of a call on its Dictionary
Drop ==
  /\ op # Idle /\ engine = "none"
  /\ op.name = "from_arpabet" \/ dict = "ready"
  /\ op' = Idle
  /\ UNCHANGED << g2p, dict, entries, engine, scan_vars, memo >>

\* the converter: construction, then calls of its operations
Next ==
  \/ \E file \in LexiconFiles, rule_file \in RuleFiles : New(file, rule_file)
  \/ \E word \in Words : Lookup(word)
  \/ \E word \in Words : WordToPhonemes(word)
  \/ \E word \in Words : ApplyRules(word)
  \/ \E text \in Texts : TextToPhonemes(text)
  \/ Return

Spec == Init /\ [][Next]_vars

\* the words apply_rules is followed on
ScanWords ==
  SeqsUpTo(ScanAlphabet, MaxWordLen) \cup Words \cup { << "q", "5" >>, << "Q" >>, << "-", "q" >>, << "g", "E" >>, << "e", "g", "E" >> }

\* a rules engine of its own, with apply_rules followed turn by turn
NextApply ==
  \/ \E rule_file \in RuleFiles : LoadEnglishRules(rule_file)
  \/ Return
  \/ \E word \in ScanWords : ApplyBegin(word)
  \/ ApplyStep
  \/ ApplyReturn
  \/ ApplyFinish

SpecApply == Init /\ [][NextApply]_vars

\* the words apply_rules is called on repeatedly
RepeatWords == SeqsUpTo(ScanAlphabet, 2) \cup Words

\* a rules engine of its own, with calls of apply_rules one after another
NextRepeat ==
  \/ \E rule_file \in RuleFiles : LoadEnglishRules(rule_file)
  \/ \E word \in RepeatWords : ApplyRules(word)
  \/ Remember
  \/ Return

SpecRepeat == Init /\ [][NextRepeat]_vars

\* phonemes constructed from symbols and rendered
NextPhoneme ==
  \/ \E symbol \in RawSymbols : FromArpabet(symbol)
  \/ Drop

SpecPhoneme == Init /\ [][NextPhoneme]_vars

\* a Dictionary of its own: the load, then calls of its public methods
NextDictionary ==
  \/ \E file \in DictionaryFiles : LoadCmuDict(file)
  \/ \E word \in DictionaryWords : DictLookup(word)
  \/ Size
  \/ IsEmpty
  \/ \E count \in 0..MaxLines : GetSampleWords(count)
  \/ \E word \in DictionaryWords, phonemes \in Pronunciations : AddEntry(word, phonemes)
  \/ Drop

SpecDictionary == Init /\ [][NextDictionary]_vars

\* for each built-in rule, words made to have it selected: its pattern, alone
\* or followed by its literal right context or by a character no rule is
\* indexed under, at the start of the word or after such a character
TableWords ==
  UNION { { pre \o BuiltinRules[i].pattern \o suf :
              pre \in { << >>, << "-" >> },
              suf \in { << >>, << "-" >> } \cup
                       (IF BuiltinRules[i].right_context \in { NoContext, << "_" >> } THEN {}
                        ELSE { BuiltinRules[i].right_context }) } :
          i \in DOMAIN BuiltinRules }

\* words for the single-letter table: each letter in upper case, under
\* which no rule is indexed, q without u, and a word that has a rule applied
\* after such a letter
FallbackWords == { << c >> : c \in UpperSet } \cup { << "q" >>, << "Q", "t", "i", "o", "n" >> }

\* a rules engine of its own, with apply_rules followed turn by turn on the
\* words made from the rule table, on those for the single-letter table and
\* on the irregular words
NextTable ==
  \/ \E rule_file \in RuleFiles : LoadEnglishRules(rule_file)
  \/ Return
  \/ \E word \in TableWords \cup FallbackWords \cup DOMAIN IrregularWords : ApplyBegin(word)
  \/ ApplyStep
  \/ ApplyReturn
  \/ ApplyFinish

SpecTable == Init /\ [][NextTable]_vars
(***************************************************************************)
(* The properties.                                                         *)
(***************************************************************************)

\* w is k in some letter case: k with some of its letters in upper case
CaseVariantOf(w, k) ==
  /\ Len(w) = Len(k)
  /\ \A i \in DOMAIN k : w[i] = k[i] \/ (k[i] \in LowerSet /\ w[i] = UpperOf[k[i]])

\* the symbols of a phoneme sequence
SymbolsOf(ps) == [ i \in DOMAIN ps |-> ps[i].symbol ]

RECURSIVE SumSeq(_)
SumSeq(s) == IF s = << >> THEN 0 ELSE Head(s) + SumSeq(Tail(s))

\* C1: for every word that has an entry in the dictionary, in any letter
\* case, word_to_phonemes returns exactly the stored phoneme sequence, also
\* when the word has an irregular-word override or matching rules
DictionaryPrecedence ==
  op.name = "word_to_phonemes" =>
    \A k \in DOMAIN entries :
      CaseVariantOf(op.input, k) => op.result = Ok(entries[k])

\* "YACHT" is converted by a converter whose dictionary holds yacht with a
\* pronunciation (Y AO1 T) other than the irregular-word override (Y AA1 T)
DictionaryPrecedenceWitness ==
  /\ op.name = "word_to_phonemes"
  /\ op.input = << "Y", "A", "C", "H", "T" >>
  /\ << "y", "a", "c", "h", "t" >> \in DOMAIN entries
  /\ << "y", "a", "c", "h", "t" >> \in DOMAIN IrregularWords
  /\ entries[<< "y", "a", "c", "h", "t" >>] # Emit(IrregularWords[<< "y", "a", "c", "h", "t" >>])
  /\ op.result = Ok(entries[<< "y", "a", "c", "h", "t" >>])

\* C2: for every non-empty word of letters a-z that is absent from the
\* dictionary, word_to_phonemes returns a non-empty phoneme sequence
FallbackNonEmpty ==
  ( /\ op.name = "word_to_phonemes"
    /\ op.input # << >>
    /\ \A i \in DOMAIN op.input : op.input[i] \in LowerSet
    /\ op.input \notin DOMAIN entries )
  => (~op.result.panic /\ op.result.val # << >>)

\* the word boundaries of a phoneme sequence, and the j-th of them
BoundariesOf(r) == { i \in DOMAIN r : r[i] = word_boundary }
NthOf(B, j) == CHOOSE i \in B : Cardinality({ b \in B : b < i }) = j - 1

\* what stands between the (j-1)-th and the j-th word boundary of r
SegmentOf(r, j) ==
  SubSeq(r, IF j = 1 THEN 1 ELSE NthOf(BoundariesOf(r), j - 1) + 1,
            NthOf(BoundariesOf(r), j) - 1)

\* C3: the output of text_to_phonemes holds exactly one word boundary for
\* each token of the text, the last element being one; what stands before
\* the j-th boundary is word_to_phonemes of the j-th token; a text without
\* tokens gives the empty output
OneBoundaryPerToken ==
  op.name = "text_to_phonemes" =>
    LET tokens == tokenize(normalize(op.input))
        r == op.result.val
    IN  /\ ~op.result.panic
        /\ Cardinality(BoundariesOf(r)) = Len(tokens)
        /\ (tokens = << >> => r = << >>)
        /\ (tokens # << >> => r[Len(r)] = word_boundary)
        /\ \A j \in DOMAIN tokens :
             Ok(SegmentOf(r, j)) = word_to_phonemes(entries, tokens[j])

\* a text of two tokens with pronunciations of different lengths
OneBoundaryPerTokenWitness ==
  /\ op.name = "text_to_phonemes"
  /\ Len(tokenize(normalize(op.input))) = 2
  /\ Cardinality(BoundariesOf(op.result.val)) = 2
  /\ Len(SegmentOf(op.result.val, 1)) > 0
  /\ Len(SegmentOf(op.result.val, 1)) # Len(SegmentOf(op.result.val, 2))

\* the irregular-word override of a word, by the table of
\* load_irregular_words: the phonemes of the last row for its case-folded form
OverrideRows(word) ==
  { i \in DOMAIN IrregularTable : IrregularTable[i][1] = to_lowercase(word) }
OverrideOf(word) ==
  LET last == CHOOSE i \in OverrideRows(word) : \A j \in OverrideRows(word) : j <= i
  IN  [ n \in DOMAIN IrregularTable[last][2] |-> from_arpabet(IrregularTable[last][2][n]) ]

\* C4: for every word whose case-folded form has an irregular-word override,
\* apply_rules returns exactly the override's phonemes and takes no turn of
\* the scan loop
IrregularOverride ==
  (pc # "idle" /\ OverrideRows(word_chars) # {}) =>
    /\ pc = "done"
    /\ steps = 0 /\ scan_pos = 0 /\ consumed = << >>
    /\ scan_phonemes = OverrideOf(word_chars)

\* "Knife", of which the rule for word-initial kn matches a prefix, gives
\* N AY1 F
IrregularOverrideWitness ==
  /\ pc = "done"
  /\ word_chars = << "K", "n", "i", "f", "e" >>
  /\ SymbolsOf(scan_phonemes) = << << "N" >>, << "A", "Y" >>, << "F" >> >>
  /\ scan_phonemes[2].stress = "Primary"
  /\ steps = 0

NoLetters(word) == \A i \in DOMAIN word : ~is_ascii_alphabetic(word[i])

\* C7: lookup, apply_rules, word_to_phonemes and text_to_phonemes return for
\* every input, and never abort: lookup returns a pronunciation or none, the
\* others return phonemes; a word without letters that the dictionary does
\* not hold gives no phoneme
ConvertNeverFails ==
  /\ op.name = "lookup" => op.result \in { None } \cup { Some(entries[k]) : k \in DOMAIN entries }
  /\ op.name \in { "apply_rules", "word_to_phonemes", "text_to_phonemes" } =>
       ~op.result.panic
  /\ (op.name \in { "apply_rules", "word_to_phonemes" } /\ NoLetters(op.input)) =>
       op.result = Ok(<< >>)

\* a word with a non-ASCII character and a digit-bearing word are converted
ConvertNeverFailsWitness ==
  /\ op.name = "word_to_phonemes"
  /\ \E i \in DOMAIN op.input : ~is_ascii(op.input[i])
  /\ \E i \in DOMAIN op.input : is_ascii_alphabetic(op.input[i])
  /\ ~op.result.panic
  /\ op.result.val # << >>

\* C8: lookup of any case variant of a stored key returns the sequence stored
\* under that key, lookup of a word whose lower-cased form is no key returns
\* not-found, and lookup leaves the dictionary unchanged
LookupCaseInsensitive ==
  /\ [](op.name = "lookup" =>
          /\ \A k \in DOMAIN entries :
               CaseVariantOf(op.input, k) => op.result = Some(entries[k])
          /\ to_lowercase(op.input) \notin DOMAIN entries => op.result = None)
  /\ [][op'.name = "lookup" => entries' = entries]_vars

\* with the entry cat -> K AE1 T, lookup("CAT") returns K, AE with primary
\* stress, T
LookupCaseInsensitiveWitness ==
  /\ op.name = "lookup"
  /\ op.input = << "C", "A", "T" >>
  /\ op.result.some
  /\ SymbolsOf(op.result.val) = << << "K" >>, << "A", "E" >>, << "T" >> >>
  /\ op.result.val[2].stress = "Primary"
  /\ is_vowel_phoneme(op.result.val[2])

\* the entry one line of a lexicon source produces on its own: a dictionary
\* of one key, or of none when the line produces no entry
EntryOf(line) == load_line(LoadStart, from_utf8_lossy(line)).entries

\* the lines of a source that produce an entry under key k
LinesFor(source, k) == { i \in DOMAIN source : k \in DOMAIN EntryOf(source[i]) }

\* C9: after a load, the entry stored under a key is the pronunciation of
\* the last line in source order that produced an entry under that key, and
\* the keys stored are the keys of the lines that produced an entry
LastLineWins ==
  (op.name = "new" /\ op.status = "ok") =>
    /\ DOMAIN entries = UNION { DOMAIN EntryOf(op.input[i]) : i \in DOMAIN op.input }
    /\ \A k \in DOMAIN entries :
         LET last == CHOOSE i \in LinesFor(op.input, k) :
                       \A j \in LinesFor(op.input, k) : j <= i
         IN  entries[k] = EntryOf(op.input[last])[k]

\* HELLO(1)  HH AH0 L OW1 then HELLO  HH EH0 L OW1: hello is stored with the
\* second line's pronunciation
LastLineWinsWitness ==
  /\ op.name = "new" /\ op.status = "ok"
  /\ op.input = << << "H", "E", "L", "L", "O", "(", "1", ")", " ", " ", "H", "H", " ", "A", "H", "0", " ", "L", " ", "O", "W", "1" >>, << "H", "E", "L", "L", "O", " ", " ", "H", "H", " ", "E", "H", "0", " ", "L", " ", "O", "W", "1" >> >>
  /\ DOMAIN entries = { << "h", "e", "l", "l", "o" >> }
  /\ SymbolsOf(entries[<< "h", "e", "l", "l", "o" >>]) = << << "H", "H" >>, << "E", "H" >>, << "L" >>, << "O", "W" >> >>

\* a line that holds a non-ASCII character or an invalid byte
HasNonAscii(line) == \E i \in DOMAIN line : line[i] \in NonAscii \cup InvalidBytes

\* C10: a load of an existing source does not abort; a line with a non-ASCII
\* or invalid byte sequence produces no entry, whatever its length and
\* wherever those bytes are; every other line that produces an entry on its
\* own has its key stored
NonAsciiLineSkipped ==
  (op.name = "new" /\ op.exists) =>
    /\ op.status # "panic"
    /\ \A i \in DOMAIN op.input : HasNonAscii(op.input[i]) => EntryOf(op.input[i]) = NoEntries
    /\ \A i \in DOMAIN op.input :
         ~HasNonAscii(op.input[i]) => DOMAIN EntryOf(op.input[i]) \subseteq DOMAIN entries

\* the load aborts on a source whose first line is skipped for its non-ASCII
\* character and is longer than the warning shows of it
NonAsciiLineAborts ==
  /\ op.name = "new" /\ op.exists
  /\ op.status = "panic"
  /\ HasNonAscii(op.input[1])

\* the pattern of a general-rule directive
\* `pattern|left_context|right_context|phoneme_list|priority` of a rule
\* source, and the lines of a rule source that are such directives
PatternOf(line) == SubSeq(line, 1, find(line, << "|" >>))
IsRuleDirective(line) == find(line, << "|" >>) > 0 /\ is_ascii_alphabetic(line[1])

\* C14: after a construction with a rule source present, every general rule
\* of the source is a rule of the engine, so that the engine's rules are
\* not those of the built-in table alone
FileRulesLoaded ==
  (op.name = "load_english_rules" /\ op.exists) =>
    \A i \in DOMAIN op.input :
      IsRuleDirective(op.input[i]) =>
        \E j \in DOMAIN op.rules : op.rules[j].pattern = PatternOf(op.input[i])

\* an engine constructed with a rule source that holds the rule zz -> Z has
\* the built-in rules and irregular words, and no rule for zz
FileRulesIgnored ==
  /\ op.name = "load_english_rules" /\ op.exists
  /\ \E i \in DOMAIN op.input : PatternOf(op.input[i]) = << "z", "z" >>
  /\ op.rules = Rules
  /\ op.irregular_words = IrregularWords
  /\ engine = "ready"

\* the rules indexed under the character at pos (0-based indices into the
\* priority-sorted Rules), and those of them that match at pos
IndexedAt(word, pos) ==
  { idx \in 0..(Len(Rules) - 1) : Rules[idx + 1].pattern[1] = word[pos + 1] }
MatchingAt(word, pos) ==
  { idx \in IndexedAt(word, pos) : rule_matches(Rules[idx + 1], word, pos) = Ok(Rules[idx + 1].priority) }

\* the matching rule of highest priority, the earliest in Rules among those
\* of that priority
HighestAt(word, pos) ==
  CHOOSE idx \in MatchingAt(word, pos) :
    \A other \in MatchingAt(word, pos) :
      \/ Rules[idx + 1].priority > Rules[other + 1].priority
      \/ Rules[idx + 1].priority = Rules[other + 1].priority /\ idx <= other

\* C15: a turn of the scan loop at a position where some rule indexed under
\* the current character matches applies the matching rule of highest
\* priority, the earliest in the sorted rule order among several of that
\* priority: the scan advances by the length of its pattern and its
\* non-empty outputs are appended as phonemes (none for a silent rule)
HighestPriorityApplied ==
  [][(pc = "scan" /\ steps' = steps + 1 /\ MatchingAt(word_chars, scan_pos) # {}) =>
       /\ scan_pos' = scan_pos + Len(Rules[HighestAt(word_chars, scan_pos) + 1].pattern)
       /\ scan_phonemes' = scan_phonemes \o
            Emit(SelectSeq(Rules[HighestAt(word_chars, scan_pos) + 1].phonemes, NonEmpty))]_vars

\* the first turn on "ghe" has applied the silent rule for gh (priority 5)
\* where the rule g -> G (priority 2) matches too: two characters are
\* consumed and no phoneme is emitted
HighestPriorityAppliedWitness ==
  /\ pc = "scan" /\ steps = 1
  /\ word_chars = << "g", "h", "e" >>
  /\ Cardinality(MatchingAt(word_chars, 0)) >= 2
  /\ scan_pos = 2
  /\ scan_phonemes = << >>

\* a word with its ASCII upper-case letters in lower case
AsciiLowerCased(word) == [ i \in DOMAIN word |-> to_ascii_lowercase(word[i]) ]

\* C16: rule patterns match the word whatever the case of its letters, so
\* that apply_rules returns for a word what it returns for the word in lower
\* case
RulesCaseInsensitive ==
  op.name = "apply_rules" => op.result = apply_rules(AsciiLowerCased(op.input))

\* apply_rules("SHIP") returns S HH IH P, one default phoneme for each
\* letter, where apply_rules("ship") returns SH IH P by the rule for sh
RulesCaseSensitive ==
  /\ op.name = "apply_rules"
  /\ op.input = << "S", "H", "I", "P" >>
  /\ SymbolsOf(op.result.val) = << << "S" >>, << "H", "H" >>, << "I", "H" >>, << "P" >> >>
  /\ SymbolsOf(apply_rules(<< "s", "h", "i", "p" >>).val) = << << "S", "H" >>, << "I", "H" >>, << "P" >> >>
  /\ MatchingAt(<< "s", "h", "i", "p" >>, 0) # {}
  /\ IndexedAt(op.input, 0) = {}

\* the rules of more than one character that carry the word-end condition
\* (mb, bt, mn, gh -> F, dge), by their indices in Rules
WordFinalRules ==
  { idx \in 0..(Len(Rules) - 1) :
      /\ "WordEnd" \in Range(Rules[idx + 1].conditions)
      /\ Len(Rules[idx + 1].pattern) > 1 }

\* the pattern of a rule occupies the final characters of the word from pos
OccupiesEnd(idx, word, pos) ==
  /\ pos + Len(Rules[idx + 1].pattern) = Len(word)
  /\ AsciiLowerCased(SubSeq(word, pos + 1, Len(word))) = Rules[idx + 1].pattern

\* the position the last turn of the scan loop was taken at
LastTurnAt == scan_pos - consumed[Len(consumed)]

EndsWith(s, t) == Len(t) <= Len(s) /\ SubSeq(s, Len(s) - Len(t) + 1, Len(s)) = t

\* C17: a turn of the scan loop at a position from which the pattern of a
\* word-final rule occupies the final characters of the word applies that
\* rule: the scan is at the end of the word and the rule's phonemes are the
\* last ones emitted (F for gh, not the silence of the unconditional rule)
WordFinalRuleFires ==
  (pc \in { "scan", "done" } /\ steps >= 1) =>
    \A idx \in WordFinalRules :
      OccupiesEnd(idx, word_chars, LastTurnAt) =>
        /\ scan_pos = Len(word_chars)
        /\ EndsWith(scan_phonemes, Emit(Rules[idx + 1].phonemes))

\* the scan of "egh" has ended with EH alone: at gh the word-final rule did
\* not match and the silent rule for gh was applied
WordFinalRuleMasked ==
  /\ pc = "done"
  /\ word_chars = << "e", "g", "h" >>
  /\ consumed = << 1, 2 >>
  /\ SymbolsOf(scan_phonemes) = << << "E", "H" >> >>
  /\ \A idx \in WordFinalRules : idx \notin MatchingAt(word_chars, 1)
  /\ \E idx \in WordFinalRules : OccupiesEnd(idx, word_chars, 1)

\* the fixed inventory: the 15 vowel and the 24 consonant symbols
VowelSymbols ==
  { << "A", "A" >>, << "A", "E" >>, << "A", "H" >>, << "A", "O" >>, << "A", "W" >>, << "A", "Y" >>, << "E", "H" >>, << "E", "R" >>,
    << "E", "Y" >>, << "I", "H" >>, << "I", "Y" >>, << "O", "W" >>, << "O", "Y" >>, << "U", "H" >>, << "U", "W" >> }
ConsonantSymbols ==
  { << "B" >>, << "C", "H" >>, << "D" >>, << "D", "H" >>, << "F" >>, << "G" >>, << "H", "H" >>, << "J", "H" >>, << "K" >>,
    << "L" >>, << "M" >>, << "N" >>, << "N", "G" >>, << "P" >>, << "R" >>, << "S" >>, << "S", "H" >>, << "T" >>,
    << "T", "H" >>, << "V" >>, << "W" >>, << "Y" >>, << "Z" >>, << "Z", "H" >> }
Inventory == VowelSymbols \cup ConsonantSymbols
StressDigits == { "0", "1", "2" }

\* C12: for every symbol of the inventory followed by a stress digit 0, 1 or
\* 2, the phoneme constructed from it is rendered as that same text
RenderRoundTrip ==
  ( /\ op.name = "from_arpabet"
    /\ \E s \in Inventory, d \in StressDigits : op.input = s \o << d >> )
  => op.rendered = op.input

\* ZH2 has been constructed, as ZH with secondary stress, and rendered
RenderRoundTripWitness ==
  /\ Cardinality(VowelSymbols) = 15 /\ Cardinality(ConsonantSymbols) = 24
  /\ op.name = "from_arpabet"
  /\ op.input = << "Z", "H", "2" >>
  /\ op.result.symbol = << "Z", "H" >>
  /\ op.result.stress = "Secondary"
  /\ op.rendered = << "Z", "H", "2" >>

\* the base symbol and the stress level of a raw symbol: a last character
\* 0, 1 or 2 is split off
BaseOf(raw) ==
  IF raw # << >> /\ raw[Len(raw)] \in StressDigits THEN SubSeq(raw, 1, Len(raw) - 1) ELSE raw
StressOf(raw) ==
  IF raw # << >> /\ raw[Len(raw)] = "1" THEN "Primary"
  ELSE IF raw # << >> /\ raw[Len(raw)] = "2" THEN "Secondary"
  ELSE "Unstressed"

\* C18: the phoneme constructed from a raw symbol has the base symbol and
\* the stress level of the raw symbol; a base symbol that is an inventory
\* symbol in any letter case has the type of that symbol (Vowel or
\* Consonant), and only a base symbol outside the inventory is Special
ClassifiedByUppercase ==
  op.name = "from_arpabet" =>
    /\ op.result.symbol = BaseOf(op.input)
    /\ op.result.stress = StressOf(op.input)
    /\ to_uppercase(BaseOf(op.input)) \in VowelSymbols =>
         op.result.features = from_arpabet(to_uppercase(BaseOf(op.input))).features
           /\ op.result.features.phoneme_type = "Vowel"
    /\ to_uppercase(BaseOf(op.input)) \in ConsonantSymbols =>
         op.result.features = from_arpabet(to_uppercase(BaseOf(op.input))).features
           /\ op.result.features.phoneme_type = "Consonant"
    /\ to_uppercase(BaseOf(op.input)) \notin Inventory =>
         op.result.features.phoneme_type = "Special"

\* the phoneme constructed from ae1 has primary stress and is Special,
\* where the one constructed from AE1 is a vowel
LowerCaseIsSpecial ==
  /\ op.name = "from_arpabet"
  /\ op.input = << "a", "e", "1" >>
  /\ op.result.symbol = << "a", "e" >>
  /\ op.result.stress = "Primary"
  /\ op.result.features.phoneme_type = "Special"
  /\ from_arpabet(<< "A", "E", "1" >>).features.phoneme_type = "Vowel"

\* C11: a load of an existing source fails exactly when no entry results:
\* with a line that produces an entry the load succeeds, whatever its other
\* lines are, and without one it fails, returning no Dictionary
LoadFailsOnlyWhenEmpty ==
  (op.name = "load_cmu_dict" /\ op.exists) =>
    IF \E i \in DOMAIN op.input : EntryOf(op.input[i]) # NoEntries
    THEN op.status = "ok" /\ dict = "ready" /\ entries # NoEntries
    ELSE op.status = "err" /\ dict = "failed"

\* the load of a source whose first line produces the entry cat and whose
\* second line is rejected has aborted
LoadAbortedWithEntry ==
  /\ op.name = "load_cmu_dict" /\ op.exists
  /\ Len(op.input) = 2
  /\ DOMAIN EntryOf(op.input[1]) = { << "c", "a", "t" >> }
  /\ EntryOf(op.input[2]) = NoEntries
  /\ op.valid_entries = 1
  /\ op.status = "panic"
  /\ dict = "aborted"

\* C13: once a Dictionary has been loaded, no call of its public methods
\* changes its keys or a stored pronunciation
ReadOnlyAfterLoad ==
  [][dict = "ready" => entries' = entries]_vars

\* add_entry("Dog", [D]) on a loaded Dictionary without the key dog has
\* stored it
EntryAddedAfterLoad ==
  /\ op.name = "add_entry"
  /\ op.input = << "D", "o", "g" >>
  /\ << "d", "o", "g" >> \notin DOMAIN op.before
  /\ << "d", "o", "g" >> \in DOMAIN entries
  /\ entries # op.before

\* C19: every phoneme stored by a load has one of the 39 inventory symbols
\* as its symbol and is a Vowel or a Consonant, none is Special
StoredPhonemesInInventory ==
  (op.name = "load_cmu_dict" /\ op.status = "ok") =>
    \A k \in DOMAIN entries : \A i \in DOMAIN entries[k] :
      /\ entries[k][i].symbol \in Inventory
      /\ entries[k][i].features.phoneme_type # "Special"

\* the line `DOG  D AO5 G Q` is stored as D, AO5, G, Q: the tokens AO5 and
\* Q are accepted and their phonemes are Special
SpecialPhonemeStored ==
  /\ op.name = "load_cmu_dict" /\ op.status = "ok"
  /\ op.input = << << "D", "O", "G", " ", " ", "D", " ", "A", "O", "5", " ", "G", " ", "Q" >> >>
  /\ SymbolsOf(entries[<< "d", "o", "g" >>]) = << << "D" >>, << "A", "O", "5" >>, << "G" >>, << "Q" >> >>
  /\ entries[<< "d", "o", "g" >>][2].features.phoneme_type = "Special"
  /\ entries[<< "d", "o", "g" >>][4].features.phoneme_type = "Special"

\* a line that is neither blank nor a comment, and one of ASCII bytes only
IsEntryLine(line) == trim(line) # << >> /\ ~IsAt(line, << ";", ";", ";" >>, 0)
AsciiOnly(line) == \A i \in DOMAIN line : line[i] \notin NonAscii \cup InvalidBytes

\* the word field and the phoneme field of a line, when it is split at the
\* first occurrence of the separator sep
FieldsOf(line, sep) ==
  << trim(SubSeq(trim(line), 1, find(trim(line), sep))),
     trim(SubSeq(trim(line), find(trim(line), sep) + 1, Len(trim(line)))) >>

\* the character-class checks of the two fields
WordClassOk(field) ==
  /\ field # << >>
  /\ \A i \in DOMAIN field : field[i] \in LowerSet \cup UpperSet \cup DigitSet \cup { "'", "-", "(", ")" }
PhonemeClassOk(field) ==
  /\ \A i \in DOMAIN field : field[i] \in LowerSet \cup UpperSet \cup DigitSet \cup { " ", "\t" }
  /\ \E i \in DOMAIN field : field[i] \in LowerSet \cup UpperSet

\* the line splits at sep into fields that pass their checks
SplitsAt(line, sep) ==
  /\ find(trim(line), sep) # -1
  /\ WordClassOk(FieldsOf(line, sep)[1])
  /\ PhonemeClassOk(FieldsOf(line, sep)[2])

\* the separator a line is split at: the double space, or the tab when the
\* line does not split at the double space; a line has fields when it
\* splits at one of them
HasFields(line) == SplitsAt(line, << " ", " " >>) \/ SplitsAt(line, << "\t" >>)
SeparatorOf(line) == IF SplitsAt(line, << " ", " " >>) THEN << " ", " " >> ELSE << "\t" >>
WordField(line) == FieldsOf(line, SeparatorOf(line))[1]
PhonemeField(line) == FieldsOf(line, SeparatorOf(line))[2]

\* a token the loader accepts: one of the symbols it lists, in any letter
\* case, alone or followed by one digit
AcceptedToken(token) ==
  \E s \in Inventory \cup { << "Q" >>, << "X" >> } :
    \/ to_uppercase(token) = s
    \/ \E d \in DigitSet : to_uppercase(token) = s \o << d >>
HasValidToken(field) ==
  \E n \in DOMAIN split_whitespace(field) : AcceptedToken(split_whitespace(field)[n])

\* what is to be said of one line: whether it is a line of ASCII bytes
\* with fields that pass their checks and with a valid token, the four
\* lengths, and the keys of the entry the loader produces for it
ReportOf(line) ==
  LET covered == /\ IsEntryLine(line) /\ AsciiOnly(line)
                 /\ HasFields(line)
                 /\ HasValidToken(PhonemeField(line))
  IN  [ covered |-> covered,
        trimmed_len |-> byte_len(trim(line)),
        len |-> byte_len(line),
        word_len |-> IF covered THEN byte_len(WordField(line)) ELSE 0,
        phonemes_len |-> IF covered THEN byte_len(PhonemeField(line)) ELSE 0,
        keys |-> DOMAIN EntryOf(line) ]
LineReports == [ line \in DictionaryLines |-> ReportOf(line) ]

\* the lines the loop of a load has gone through
ProcessedLines == { i \in DOMAIN op.input : i <= op.line_count }

\* C20 as stated: a line with fields that pass their checks and with a
\* valid token, of ASCII bytes only and of a trimmed length within
\* [MinLineLen, MaxLineLen], produces an entry: no other length rejects it
OnlyTrimmedLengthRejects ==
  op.name = "load_cmu_dict" =>
    \A i \in ProcessedLines :
      ( /\ LineReports[op.input[i]].covered
        /\ LineReports[op.input[i]].trimmed_len >= MinLineLen
        /\ LineReports[op.input[i]].trimmed_len <= MaxLineLen )
      => LineReports[op.input[i]].keys # {}

\* the four lengths of a line are within their limits
LengthsWithinLimits(report) ==
  /\ report.trimmed_len >= MinLineLen
  /\ report.len <= MaxLineLen
  /\ report.word_len <= MaxWordPartLen
  /\ report.phonemes_len <= MaxPhonemesPartLen

\* C20, amended: a line of ASCII bytes only, with fields that pass their
\* checks and with a valid token, that the loader goes through produces an
\* entry exactly when its trimmed length is at least MinLineLen, its length
\* as read is at most MaxLineLen, its word field is at most MaxWordPartLen
\* bytes and its phoneme field at most MaxPhonemesPartLen bytes long; the
\* Dictionary a load returns holds the key of each such entry
FourLengthsReject ==
  op.name = "load_cmu_dict" =>
    \A i \in ProcessedLines :
      LineReports[op.input[i]].covered =>
        /\ LineReports[op.input[i]].keys # {} <=> LengthsWithinLimits(LineReports[op.input[i]])
        /\ LengthsWithinLimits(LineReports[op.input[i]]) =>
             \/ op.status = "ok" /\ LineReports[op.input[i]].keys \subseteq DOMAIN entries
             \/ op.status = "panic" /\ op.valid_entries >= 1

\* a source of two lines `<word>  K`, the first with a word of 50 letters,
\* the second with one of 51, has been loaded: one entry
FourLengthsRejectWitness ==
  /\ op.name = "load_cmu_dict" /\ op.status = "ok"
  /\ Len(op.input) = 2
  /\ LineReports[op.input[1]].covered /\ LineReports[op.input[2]].covered
  /\ LineReports[op.input[1]].word_len = MaxWordPartLen
  /\ LineReports[op.input[2]].word_len = MaxWordPartLen + 1
  /\ LineReports[op.input[2]].trimmed_len <= MaxLineLen
  /\ LineReports[op.input[2]].keys = {}
  /\ op.valid_entries = 1 /\ op.skipped_lines = 1
  /\ Cardinality(DOMAIN entries) = 1

\* the phoneme of the single-letter table for a character: that of the
\* letter's row, whatever the letter's case, and none for any other
\* character
FallbackOf(c) ==
  IF c \in LowerSet \cup UpperSet
  THEN << from_arpabet((CHOOSE row \in Range(DefaultTable) :
                          row[1] = AsciiLowerCased(<< c >>)[1])[2]) >>
  ELSE << >>

\* C21: a turn of the scan loop at a position where no rule matches appends
\* the single-letter phoneme of the character there when it is one of the
\* 26 letters, in either case, and nothing otherwise, and advances the scan
\* by exactly one; the single-letter table has a row for each letter
FallbackOnNoRule ==
  [][(pc = "scan" /\ steps' = steps + 1 /\ MatchingAt(word_chars, scan_pos) = {}) =>
       /\ \A c \in LowerSet : \E row \in Range(DefaultTable) : row[1] = c
       /\ scan_pos' = scan_pos + 1
       /\ scan_phonemes' = scan_phonemes \o FallbackOf(word_chars[scan_pos + 1])]_vars

\* the two turns on "q5" are through: no rule matches q without a u after
\* it, nor 5; K has been emitted for q and nothing for 5
FallbackOnNoRuleWitness ==
  /\ pc = "scan" /\ steps = 2
  /\ word_chars = << "q", "5" >>
  /\ \A idx \in 0..(Len(Rules) - 1) :
       rule_matches(Rules[idx + 1], word_chars, 0) = Ok(NoMatch)
  /\ consumed = << 1, 1 >>
  /\ scan_pos = 2
  /\ SymbolsOf(scan_phonemes) = << << "K" >> >>

\* what a right context asks of the word at q, the position after the
\* pattern, and a left context at p, the position of the pattern: the
\* sentinel _ the end and the start of the word, a literal the characters
\* next to the pattern, compared in lower case
RightContextHolds(context, word, q) ==
  IF context = << "_" >> THEN q = Len(word)
  ELSE /\ q + Len(context) <= Len(word)
       /\ AsciiLowerCased(SubSeq(word, q + 1, q + Len(context))) = context
LeftContextHolds(context, word, p) ==
  IF context = << "_" >> THEN p = 0
  ELSE /\ Len(context) <= p
       /\ AsciiLowerCased(SubSeq(word, p - Len(context) + 1, p)) = context

\* the rule matches at p only if each context it has holds there
ContextsHold(rule, word, p) ==
  /\ rule.right_context # NoContext =>
       RightContextHolds(rule.right_context, word, p + Len(rule.pattern))
  /\ rule.left_context # NoContext =>
       LeftContextHolds(rule.left_context, word, p)

\* the rules that have a context, by their places in Rules
RulesWithContext ==
  { idx \in DOMAIN Rules :
      Rules[idx].right_context # NoContext \/ Rules[idx].left_context # NoContext }

\* literal left contexts; no rule of the built-in table has one
LeftLiterals == { << "e" >>, << "g", "h" >>, << "h", "e", "n" >> }

\* C22: at every position of the word apply_rules is called on, a rule with
\* a context matches only if the context holds there (the sentinel at the
\* word's end or start, a literal next to the pattern, letter case ignored),
\* and no check reads outside the word; check_left_context answers true on
\* a literal only where the literal stands before the position
ContextsRespected ==
  pc = "scan" =>
    /\ \A p \in 0..(Len(word_chars) - 1) : \A idx \in RulesWithContext :
         \E m \in { rule_matches(Rules[idx], word_chars, p) } :
           /\ m # Panic
           /\ m = Ok(Rules[idx].priority) => ContextsHold(Rules[idx], word_chars, p)
    /\ \A p \in 0..Len(word_chars) : \A context \in LeftLiterals :
         /\ check_left_context(context, word_chars, p) # Panic
         /\ check_left_context(context, word_chars, p) = Ok(TRUE) =>
              LeftContextHolds(context, word_chars, p)

\* the first turn on "gE" has applied g -> JH, the rule with the right
\* context e, before the upper-case E
ContextsRespectedWitness ==
  /\ pc = "scan" /\ steps = 1
  /\ word_chars = << "g", "E" >>
  /\ Rules[HighestAt(word_chars, 0) + 1].right_context = << "e" >>
  /\ scan_pos = 1
  /\ SymbolsOf(scan_phonemes) = << << "J", "H" >> >>

\* the place of a rule in the built-in table, as written in the source
TablePlace(rule) == CHOOSE i \in DOMAIN BuiltinRules : BuiltinRules[i] = rule

\* the places (group, position) at which an index holds the rule index idx
IndexPlaces(groups, idx) ==
  { << c, k >> \in UNION { { c } \X DOMAIN groups[c] : c \in DOMAIN groups } :
      groups[c][k] = idx }

\* C23: the rules of a constructed engine are the rules of the built-in
\* table in non-increasing priority order, those of equal priority in the
\* order of the table; each rule is in the index exactly once, under the
\* first character of its pattern, and the indices of a group increase
SortedAndIndexed ==
  op.name = "load_english_rules" =>
    /\ Len(op.rules) = Len(BuiltinRules)
    /\ Range(op.rules) = Range(BuiltinRules)
    /\ \A i, j \in DOMAIN op.rules :
         i < j => \/ op.rules[i].priority > op.rules[j].priority
                  \/ /\ op.rules[i].priority = op.rules[j].priority
                     /\ TablePlace(op.rules[i]) < TablePlace(op.rules[j])
    /\ \A idx \in 0..(Len(op.rules) - 1) :
         IndexPlaces(op.rule_groups, idx) # {}
           /\ \A place \in IndexPlaces(op.rule_groups, idx) :
                /\ place[1] = op.rules[idx + 1].pattern[1]
                /\ IndexPlaces(op.rule_groups, idx) = { place }
    /\ \A c \in DOMAIN op.rule_groups : \A k, l \in DOMAIN op.rule_groups[c] :
         k < l => op.rule_groups[c][k] < op.rule_groups[c][l]

\* an engine has been constructed: the two rules for gh, sixth-priority
\* gh -> F and fifth-priority silent gh, stand in that order in the group
\* of g, after ght -> T, which the table lists after them
SortedAndIndexedWitness ==
  /\ op.name = "load_english_rules" /\ engine = "ready"
  /\ \E k, l, m \in DOMAIN op.rule_groups["g"] :
       /\ k < l /\ l < m
       /\ op.rules[op.rule_groups["g"][k] + 1].pattern = << "g", "h" >>
       /\ op.rules[op.rule_groups["g"][k] + 1].priority = 6
       /\ op.rules[op.rule_groups["g"][l] + 1].pattern = << "g", "h", "t" >>
       /\ op.rules[op.rule_groups["g"][l] + 1].priority = 6
       /\ op.rules[op.rule_groups["g"][m] + 1].pattern = << "g", "h" >>
       /\ op.rules[op.rule_groups["g"][m] + 1].priority = 5
       /\ TablePlace(op.rules[op.rule_groups["g"][m] + 1])
            < TablePlace(op.rules[op.rule_groups["g"][l] + 1])

\* the lines of a source that are blank or comments
BlankOrComment(lines) == { i \in DOMAIN lines : ~IsEntryLine(lines[i]) }

\* C24: the counts of a load that has run to its end account for every
\* line: the lines processed are the blank and comment lines, the valid
\* ones and the rejected ones
CountsAccountForLines ==
  (op.name = "load_cmu_dict" /\ op.exists /\ op.status \in { "ok", "err" }) =>
    /\ op.line_count = Len(op.input)
    /\ op.line_count = Cardinality(BlankOrComment(op.input))
                         + op.valid_entries + op.skipped_lines

\* the source `CAT  K AE1 T`, `BAD  QQ ZZ` has been loaded: two lines
\* processed, one valid, none rejected; the second line, without a valid
\* token, is counted as neither
LineUncounted ==
  /\ op.name = "load_cmu_dict" /\ op.status = "ok"
  /\ op.input = << << "C", "A", "T", " ", " ", "K", " ", "A", "E", "1", " ", "T" >>, << "B", "A", "D", " ", " ", "Q", "Q", " ", "Z", "Z" >> >>
  /\ BlankOrComment(op.input) = {}
  /\ DOMAIN entries = { << "c", "a", "t" >> }
  /\ op.line_count = 2 /\ op.valid_entries = 1 /\ op.skipped_lines = 0

\* the rules selected in the turns of apply_rules on a word, from the scan
\* position pos on (0-based indices into Rules)
RECURSIVE SelectedFrom(_, _)
SelectedAnd(found, word, pos) ==
  IF found.panic THEN {}
  ELSE IF found.val = NoRule THEN SelectedFrom(word, pos + 1)
  ELSE { found.val } \cup SelectedFrom(word, pos + Len(Rules[found.val + 1].pattern))
SelectedFrom(word, pos) ==
  IF pos >= Len(word) THEN {}
  ELSE SelectedAnd(find_best_rule(word, pos), word, pos)

\* the rules selected on some word made from the table that is not an
\* irregular word
SelectableRules ==
  UNION { SelectedFrom(word, 0) : word \in TableWords \ DOMAIN IrregularWords }

\* C25: every rule of a constructed engine is selected by apply_rules at
\* some position of some word that is not an irregular word
EveryRuleSelected ==
  engine = "ready" => \A idx \in 0..(Len(Rules) - 1) : idx \in SelectableRules

\* the rules that are never selected
DeadRules == (0..(Len(Rules) - 1)) \ SelectableRules

\* the first turn on "tion" has applied tion -> SH AH N (priority 7) where
\* the rule ti -> SH before on (priority 6) matches too; that rule is
\* selected on no word
RuleShadowed ==
  /\ pc = "scan" /\ steps = 1
  /\ word_chars = << "t", "i", "o", "n" >>
  /\ scan_pos = 4
  /\ SymbolsOf(scan_phonemes) = << << "S", "H" >>, << "A", "H" >>, << "N" >> >>
  /\ \E idx \in DeadRules :
       /\ Rules[idx + 1].pattern = << "t", "i" >>
       /\ Rules[idx + 1].right_context = << "o", "n" >>
       /\ rule_matches(Rules[idx + 1], word_chars, 0) = Ok(6)

\* C26: every key of a loaded Dictionary is a non-empty string of
\* lower-case letters and apostrophes; a line whose word field is cleaned to
\* the empty string produces no entry
KeysNonEmptyLowercase ==
  (op.name = "load_cmu_dict" /\ op.status = "ok") =>
    \A key \in DOMAIN entries :
      /\ key # << >>
      /\ \A i \in DOMAIN key : key[i] \in LowerSet \cup { "'" }

\* the source of the one line `(1)  K` has been loaded: one valid entry,
\* stored under the empty key
EmptyKeyStored ==
  /\ op.name = "load_cmu_dict" /\ op.status = "ok"
  /\ op.input = << << "(", "1", ")", " ", " ", "K" >> >>
  /\ clean_word(<< "(", "1", ")" >>) = << >>
  /\ op.valid_entries = 1
  /\ DOMAIN entries = { << >> }
  /\ SymbolsOf(entries[<< >>]) = << << "K" >> >>

\* C27: every phoneme apply_rules has emitted, for an irregular word, from
\* a rule or from the single-letter table, has a symbol of the inventory
\* and is a Vowel or a Consonant by that symbol; none is the word boundary
\* or another Special phoneme
EmitsInventoryOnly ==
  pc \in { "scan", "done" } =>
    \A i \in DOMAIN scan_phonemes :
      /\ scan_phonemes[i].symbol \in Inventory
      /\ scan_phonemes[i].symbol \in VowelSymbols <=>
           scan_phonemes[i].features.phoneme_type = "Vowel"
      /\ scan_phonemes[i].symbol \in ConsonantSymbols <=>
           scan_phonemes[i].features.phoneme_type = "Consonant"
      /\ scan_phonemes[i] # word_boundary

\* apply_rules on "Qtion" is through: K from the single-letter table for Q,
\* then SH AH N from the rule for tion
EmitsInventoryOnlyWitness ==
  /\ pc = "done"
  /\ word_chars = << "Q", "t", "i", "o", "n" >>
  /\ consumed = << 1, 4 >>
  /\ SymbolsOf(scan_phonemes) = << << "K" >>, << "S", "H" >>, << "A", "H" >>, << "N" >> >>
  /\ scan_phonemes[3].features.phoneme_type = "Vowel"

====
